---- MODULE Spec2Model ----
(***************************************************************************)
(* A model of the book recommender's vector store (BookVectorStore): its   *)
(* result cache, its document store with the two offset mappings, the      *)
(* exact index, and the save/load persistence path, together with the      *)
(* catalog list of BookRecommender that sits on top of it.                 *)
(***************************************************************************)
EXTENDS Integers, Sequences, FiniteSets, TLC

VARIABLES
    now,               \* std::chrono::system_clock::now(), in whole minutes
    cache_size_,       \* BookVectorStore::cache_size_
    search_cache_,     \* BookVectorStore::search_cache_ : key -> CacheEntry
    got,               \* what the last getFromCache call returned
    put,               \* the key of the last addToCache call and the entries held before it
    last_op,           \* the operation that ran last
    last_id,           \* the id it was called with ("" when it takes none)
    document_store_,   \* BookVectorStore::document_store_ : id -> Document
    doc_id_to_index_,  \* BookVectorStore::doc_id_to_index_ : id -> offset
    index_to_doc_id_,  \* BookVectorStore::index_to_doc_id_ : offset -> id
    flat_index_,       \* the vectors held by the exact index, by offset
    ivf_index_,        \* the vectors held by the approximate index
    is_trained_,       \* BookVectorStore::is_trained_
    books_,            \* BookRecommender::books_
    disk,              \* the three artifacts under the snapshot's base path
    thrown,            \* the exception the last operation ended in, or "none"
    last_results,      \* the list the last search returned
    last_raw,          \* the raw hits (offsets and distances) it was made from
    removed,           \* ids removed by removeBook and not added or loaded since
    saved,             \* the store as it was at the last saveIndex that returned
    fresh,             \* the store is newly constructed: nothing but loadIndex has run on it
    repeated,          \* the last operation repeats the one before it, argument included
    dimension_,        \* BookVectorStore::dimension_
    call,              \* the last call into the query engine: arguments and what happened inside
    recommendations,   \* the list that call returned
    load_pc            \* where a loadIndex running on another thread stands

cacheVars == <<now, cache_size_, search_cache_, got, put>>
storeVars == <<document_store_, doc_id_to_index_, index_to_doc_id_, flat_index_,
               ivf_index_, is_trained_>>
restVars == <<books_, disk, thrown, last_results, last_raw, removed, saved, fresh>>
engineVars == <<dimension_, call, recommendations, load_pc>>
vars == <<now, cache_size_, search_cache_, got, put, last_op, last_id, document_store_,
          doc_id_to_index_, index_to_doc_id_, flat_index_, ivf_index_, is_trained_,
          books_, disk, thrown, last_results, last_raw, removed, saved, fresh, repeated,
          dimension_, call, recommendations, load_pc>>

----------------------------------------------------------------------------
(* Bounds of the model *)

\* largest capacity a store is constructed with or resized to
MaxCap == 2
\* the clock stops advancing at this minute
MaxTime == 82
\* the clock advances by one of these amounts (minutes) between operations
TickSteps == {20, 41}
\* the exact index is not grown beyond this many vectors
MaxVectors == 2
\* largest top_k a search is called with
MaxTopK == 2
\* most raw hits handed to result processing at once
MaxHits == 3
\* offsets of the stores the hit processing is run against
MaxOffsets == 3

(* Program constants *)

\* cleanupCache: "if (age > 60)"
EvictionAgeMinutes == 60

----------------------------------------------------------------------------
(* Values *)

\* keys the cache operations are exercised with
SampleKeys == {"k1", "k2", "k3"}
\* result lists stored under them
SampleResults == {<<>>, <<"r1">>}

\* document ids, embeddings (unit vectors) and query vectors
DocIds == {"a", "b"}
SampleVectors == {<<1, 0>>, <<0, 1>>}

\* the dimension the stores of the model are constructed with: that of the
\* sample vectors
SampleDimension == Len(CHOOSE v \in SampleVectors : TRUE)
\* no call into the query engine has been made
NoCall == [op |-> "none"]
\* no loadIndex is running
Idle == [step |-> "idle"]
NoEntry == [hit |-> FALSE, key |-> "", results |-> <<>>, age |-> 0]

Restrict(f, S) == [x \in S |-> f[x]]

----------------------------------------------------------------------------
(* The result cache *)

\* cleanupCache(): erase every entry whose age in whole minutes exceeds 60
cleanupCache(cache, t) ==
    Restrict(cache, {k \in DOMAIN cache : ~(t - cache[k].timestamp > EvictionAgeMinutes)})

\* std::min_element over the entries by timestamp: one of the oldest entries
\* (the map is unordered, so which of several equally old ones is unspecified)
OldestKeys(cache) ==
    {k \in DOMAIN cache : \A j \in DOMAIN cache : cache[k].timestamp <= cache[j].timestamp}

\* the capacity step of addToCache: the caches it can leave behind
EvictOldest(cache, cap) ==
    IF Cardinality(DOMAIN cache) >= cap
    THEN {Restrict(cache, DOMAIN cache \ {k}) : k \in OldestKeys(cache)}
    ELSE {cache}

\* search_cache_[key] = {results, now}
StoreEntry(cache, key, results, t) ==
    [k \in DOMAIN cache \cup {key} |->
        IF k = key THEN [results |-> results, timestamp |-> t] ELSE cache[k]]

\* a put that forgets the capacity step
addToCacheNoCapacityStep(cache, cap, key, results, t) ==
    {StoreEntry(cleanupCache(cache, t), key, results, t)}

\* a put whose capacity step erases any entry, not one of the oldest
addToCacheEvictsAny(cache, cap, key, results, t) ==
    LET cleaned == cleanupCache(cache, t)
    IN {StoreEntry(c, key, results, t) :
            c \in IF Cardinality(DOMAIN cleaned) >= cap
                  THEN {Restrict(cleaned, DOMAIN cleaned \ {k}) : k \in DOMAIN cleaned}
                  ELSE {cleaned}}

\* addToCache(key, results): the caches the call can leave behind
addToCache(cache, cap, key, results, t) ==
    {StoreEntry(c, key, results, t) : c \in EvictOldest(cleanupCache(cache, t), cap)}

\* getFromCache(key): the stored list when the key is present, else nullopt
getFromCache(cache, key, t) ==
    IF key \in DOMAIN cache
    THEN [hit |-> TRUE, key |-> key, results |-> cache[key].results,
          age |-> t - cache[key].timestamp]
    ELSE [NoEntry EXCEPT !.key = key]

\* setCacheSize(size): the cache after the call
setCacheSize(cache, size, t) == cleanupCache(cache, t)

\* std::hash<float>: implementation-defined; 0 for 0.0f, otherwise some
\* word (a representative value per component is used here)
HashFloat(v) == IF v = 0 THEN 0 ELSE 174 + v

HexDigit == <<"0", "1", "2", "3", "4", "5", "6", "7",
              "8", "9", "a", "b", "c", "d", "e", "f">>

\* operator<< of an unsigned integer under std::hex
RECURSIVE Hex(_)
Hex(n) == IF n < 16 THEN HexDigit[n + 1] ELSE Hex(n \div 16) \o HexDigit[(n % 16) + 1]

\* generateCacheKey(query_vector, top_k): the component hashes in hex, one
\* after the other with nothing between them, then top_k (still in hex)
RECURSIVE HashesFrom(_, _)
HashesFrom(query_vector, i) ==
    IF i > Len(query_vector) THEN ""
    ELSE Hex(HashFloat(query_vector[i])) \o HashesFrom(query_vector, i + 1)

generateCacheKey(query_vector, top_k) == HashesFrom(query_vector, 1) \o Hex(top_k)

----------------------------------------------------------------------------
(* Documents and their JSON form *)

\* std::optional<Embedding>
nullopt == [has |-> FALSE, value |-> <<>>]
Some(v) == [has |-> TRUE, value |-> v]

\* nlohmann::json values: t is the type tag, v the value
JString(s) == [t |-> "string", v |-> s]
JNumber(n) == [t |-> "number", v |-> n]
JArray(items) == [t |-> "array", v |-> items]
JObject(members) == [t |-> "object", v |-> members]
JNull == [t |-> "null", v |-> ""]

\* Document::Document: the timestamp is the time of construction
Document(id, text, metadata, embedding, t) ==
    [id |-> id, text |-> text, metadata |-> metadata, embedding |-> embedding,
     timestamp |-> t]

\* Document::getGenreString: get<std::vector<std::string>> throws type_error
\* when the array holds something that is not a string
getGenreStringThrows(doc) ==
    /\ "genres" \in DOMAIN doc.metadata
    /\ doc.metadata["genres"].t = "array"
    /\ \E i \in DOMAIN doc.metadata["genres"].v : doc.metadata["genres"].v[i].t # "string"

RECURSIVE JoinFrom(_, _)
JoinFrom(items, i) ==
    IF i > Len(items) THEN ""
    ELSE (IF i > 1 THEN ", " ELSE "") \o items[i].v \o JoinFrom(items, i + 1)

getGenreString(doc) ==
    IF "genres" \notin DOMAIN doc.metadata \/ doc.metadata["genres"].t # "array"
    THEN ""
    ELSE JoinFrom(doc.metadata["genres"].v, 1)

\* Document::getSeries: get<std::string> throws on a value that is neither
\* null nor a string
getSeriesThrows(doc) ==
    /\ "series" \in DOMAIN doc.metadata
    /\ doc.metadata["series"].t \notin {"null", "string"}

getSeries(doc) ==
    IF "series" \notin DOMAIN doc.metadata \/ doc.metadata["series"].t = "null"
    THEN JNull
    ELSE doc.metadata["series"]

\* Document::getAuthor: get<std::string> throws on a value that is not a string
getAuthorThrows(doc) ==
    /\ "author" \in DOMAIN doc.metadata
    /\ doc.metadata["author"].t # "string"

getAuthor(doc) ==
    IF "author" \notin DOMAIN doc.metadata THEN JString("") ELSE doc.metadata["author"]

\* Document::toJson raises nlohmann's type_error
toJsonThrows(doc) ==
    getGenreStringThrows(doc) \/ getSeriesThrows(doc) \/ getAuthorThrows(doc)

\* a serialisation that leaves the embedding out
toJsonWithoutEmbedding(doc) ==
    [k \in {"id", "text", "metadata", "timestamp", "genres", "series", "author"} |->
        CASE k = "id" -> JString(doc.id)
          [] k = "text" -> JString(doc.text)
          [] k = "metadata" -> JObject(doc.metadata)
          [] k = "timestamp" -> JNumber(doc.timestamp)
          [] k = "genres" -> JString(getGenreString(doc))
          [] k = "series" -> getSeries(doc)
          [] k = "author" -> getAuthor(doc)]

\* Document::toJson: the stored fields (the embedding only when there is one)
\* and the computed ones.  The numeric computed fields (metrics,
\* engagement_score, is_recommended, publication_year, reading_level) are total
\* functions of the metadata that nothing reads back; they are left out.
toJson(doc) ==
    [k \in {"id", "text", "metadata", "timestamp", "genres", "series", "author"}
           \cup (IF doc.embedding.has THEN {"embedding"} ELSE {}) |->
        CASE k = "id" -> JString(doc.id)
          [] k = "text" -> JString(doc.text)
          [] k = "metadata" -> JObject(doc.metadata)
          [] k = "embedding" -> JArray(doc.embedding.value)
          [] k = "timestamp" -> JNumber(doc.timestamp)
          [] k = "genres" -> JString(getGenreString(doc))
          [] k = "series" -> getSeries(doc)
          [] k = "author" -> getAuthor(doc)]

\* Document::fromJson raises type_error: a get<T> on a value of another type
fromJsonThrows(j) ==
    \/ ("embedding" \in DOMAIN j /\ j["embedding"].t \notin {"null", "array"})
    \/ j["id"].t # "string"
    \/ j["text"].t # "string"
    \/ j["metadata"].t # "object"

\* a deserialisation that keeps the text as the id
fromJsonTextAsId(j, t) ==
    Document(j["text"].v, j["text"].v, j["metadata"].v,
             IF "embedding" \in DOMAIN j /\ j["embedding"].t # "null"
             THEN Some(j["embedding"].v) ELSE nullopt,
             t)

\* Document::fromJson: id, text, metadata and the optional embedding are read
\* back; the timestamp is that of the new object
fromJson(j, t) ==
    Document(j["id"].v, j["text"].v, j["metadata"].v,
             IF "embedding" \in DOMAIN j /\ j["embedding"].t # "null"
             THEN Some(j["embedding"].v) ELSE nullopt,
             t)

----------------------------------------------------------------------------
(* The document store, the offset mappings and result processing *)

\* updateDocumentMapping(doc_id, index): offsets are 0-based, index_to_doc_id_
\* is resized with empty ids when the offset lies beyond its end
updateDocumentMapping(d2i, i2d, doc_id, index) ==
    [d2i |-> [k \in DOMAIN d2i \cup {doc_id} |-> IF k = doc_id THEN index ELSE d2i[k]],
     i2d |-> [i \in 1..(IF index >= Len(i2d) THEN index + 1 ELSE Len(i2d)) |->
                IF i = index + 1 THEN doc_id
                ELSE IF i <= Len(i2d) THEN i2d[i] ELSE ""]]

\* result processing that trusts every offset inside the mapping
RECURSIVE processSearchResultsUnfiltered(_, _, _, _, _)
processSearchResultsUnfiltered(i2d, store, distances, indices, i) ==
    IF i > Len(indices) THEN <<>>
    ELSE IF indices[i] < 0 \/ indices[i] >= Len(i2d)
         THEN processSearchResultsUnfiltered(i2d, store, distances, indices, i + 1)
         ELSE <<[doc_id |-> i2d[indices[i] + 1],
                 similarity |-> distances[i],
                 document |-> IF i2d[indices[i] + 1] \in DOMAIN store
                              THEN store[i2d[indices[i] + 1]]
                              ELSE Document(i2d[indices[i] + 1], "", <<>>, nullopt, 0)]>>
              \o processSearchResultsUnfiltered(i2d, store, distances, indices, i + 1)

\* processSearchResults(distances, indices, n_results), from raw hit i on
RECURSIVE processSearchResults(_, _, _, _, _)
processSearchResults(i2d, store, distances, indices, i) ==
    IF i > Len(indices) THEN <<>>
    ELSE IF indices[i] < 0 \/ indices[i] >= Len(i2d)
         THEN processSearchResults(i2d, store, distances, indices, i + 1)
         ELSE IF i2d[indices[i] + 1] \notin DOMAIN store
              THEN processSearchResults(i2d, store, distances, indices, i + 1)
              ELSE <<[doc_id |-> i2d[indices[i] + 1],
                      similarity |-> distances[i],
                      document |-> store[i2d[indices[i] + 1]]]>>
                   \o processSearchResults(i2d, store, distances, indices, i + 1)

----------------------------------------------------------------------------
(* The exact index (faiss::IndexFlatIP), as the store uses it *)

RECURSIVE InnerProductFrom(_, _, _)
InnerProductFrom(a, b, i) ==
    IF i > Len(a) \/ i > Len(b) THEN 0
    ELSE a[i] * b[i] + InnerProductFrom(a, b, i + 1)

InnerProduct(a, b) == InnerProductFrom(a, b, 1)

\* offset a ranks before offset b for query q (both 1-based positions here)
RanksBefore(flat, q, a, b) ==
    \/ InnerProduct(flat[a], q) > InnerProduct(flat[b], q)
    \/ (InnerProduct(flat[a], q) = InnerProduct(flat[b], q) /\ a < b)

RankOf(flat, q, a) == Cardinality({b \in DOMAIN flat : RanksBefore(flat, q, b, a)}) + 1

\* IndexFlatIP::search for one query: the k best offsets (0-based) by
\* descending inner product, padded with label -1 and the lowest distance
\* when the index holds fewer than k vectors
FaissSearch(flat, q, k) ==
    LET at(r) == CHOOSE a \in DOMAIN flat : RankOf(flat, q, a) = r
    IN [indices |-> [r \in 1..k |-> IF r <= Len(flat) THEN at(r) - 1 ELSE -1],
        distances |-> [r \in 1..k |->
                         IF r <= Len(flat) THEN InnerProduct(flat[at(r)], q) ELSE -1]]

----------------------------------------------------------------------------
(* Persistence: saveIndex and loadIndex *)

NoFile == [exists |-> FALSE, vectors |-> <<>>]
IndexFile(vectors) == [exists |-> TRUE, vectors |-> vectors]
NoMapping == [exists |-> FALSE, count |-> 0, records |-> <<>>]

\* one length-prefixed record of the mapping artifact: the JSON it parses to,
\* or bytes that nlohmann::json::parse rejects
JsonRecord(j) == [ok |-> TRUE, json |-> j]
NotJson == [ok |-> FALSE, json |-> <<>>]

\* the orders in which a range-for can walk an unordered_map with these keys
IterationOrders(S) ==
    {o \in [1..Cardinality(S) -> S] : \A i, j \in 1..Cardinality(S) : o[i] = o[j] => i = j}

\* the records written before toJson first throws (all of them when none does)
RECURSIVE RecordsWritten(_, _, _)
RecordsWritten(store, order, i) ==
    IF i > Len(order) \/ toJsonThrows(store[order[i]]) THEN <<>>
    ELSE <<JsonRecord(toJson(store[order[i]]))>> \o RecordsWritten(store, order, i + 1)

\* saveIndex(path) when the store is walked in the given order: both index
\* artifacts, then the record count and one record per document
saveIndex(st, order) ==
    [snapshot |-> [flat |-> IndexFile(st.flat_index_),
               ivf |-> IndexFile(st.ivf_index_),
               mapping |-> [exists |-> TRUE,
                            count |-> Cardinality(DOMAIN st.document_store_),
                            records |-> RecordsWritten(st.document_store_, order, 1)]],
     thrown |-> IF \E id \in DOMAIN st.document_store_ : toJsonThrows(st.document_store_[id])
                THEN "type_error" ELSE "none"]

\* the loop of loadIndex from record i (0-based) on: what the call can end in.
\* A read past the end of the file leaves str_len unset; the string built
\* from it either fails to parse or cannot be allocated.
RECURSIVE LoadRecords(_, _, _, _, _)
LoadRecords(records, doc_count, i, st, t) ==
    IF i >= doc_count
    THEN {[st |-> [st EXCEPT !.is_trained_ = TRUE], thrown |-> "none"]}
    ELSE IF i >= Len(records)
    THEN {[st |-> st, thrown |-> e] : e \in {"parse_error", "length_error"}}
    ELSE IF ~records[i + 1].ok
    THEN {[st |-> st, thrown |-> "parse_error"]}
    ELSE IF fromJsonThrows(records[i + 1].json)
    THEN {[st |-> st, thrown |-> "type_error"]}
    ELSE LET doc == fromJson(records[i + 1].json, t)
             m == updateDocumentMapping(st.doc_id_to_index_, st.index_to_doc_id_, doc.id, i)
         IN LoadRecords(records, doc_count, i + 1,
                [st EXCEPT !.doc_id_to_index_ = m.d2i,
                           !.index_to_doc_id_ = m.i2d,
                           !.document_store_ =
                               [k \in DOMAIN st.document_store_ \cup {doc.id} |->
                                   IF k = doc.id THEN doc ELSE st.document_store_[k]]],
                t)

\* loadIndex(path): what the call can end in.  The handles are replaced one
\* after the other, then the store and both mappings are cleared, then the
\* records are read.  Without a mapping artifact doc_count is never set.
loadIndex(st, snapshot, t) ==
    IF ~snapshot.flat.exists
    THEN {[st |-> st, thrown |-> "FaissException"]}
    ELSE IF ~snapshot.ivf.exists
    THEN {[st |-> [st EXCEPT !.flat_index_ = snapshot.flat.vectors],
           thrown |-> "FaissException"]}
    ELSE UNION {LoadRecords(snapshot.mapping.records, c, 0,
                    [st EXCEPT !.flat_index_ = snapshot.flat.vectors,
                               !.ivf_index_ = snapshot.ivf.vectors,
                               !.document_store_ = <<>>,
                               !.doc_id_to_index_ = <<>>,
                               !.index_to_doc_id_ = <<>>], t) :
                c \in IF snapshot.mapping.exists THEN {snapshot.mapping.count} ELSE {0, 1}}

----------------------------------------------------------------------------
(* The store as one value, and the operations on it *)

EmptyStore ==
    [flat_index_ |-> <<>>, ivf_index_ |-> <<>>, document_store_ |-> <<>>,
     doc_id_to_index_ |-> <<>>, index_to_doc_id_ |-> <<>>, is_trained_ |-> FALSE]

St ==
    [flat_index_ |-> flat_index_, ivf_index_ |-> ivf_index_,
     document_store_ |-> document_store_, doc_id_to_index_ |-> doc_id_to_index_,
     index_to_doc_id_ |-> index_to_doc_id_, is_trained_ |-> is_trained_]

SetStore(st) ==
    /\ flat_index_' = st.flat_index_
    /\ ivf_index_' = st.ivf_index_
    /\ document_store_' = st.document_store_
    /\ doc_id_to_index_' = st.doc_id_to_index_
    /\ index_to_doc_id_' = st.index_to_doc_id_
    /\ is_trained_' = st.is_trained_

NoHits == [indices |-> <<>>, distances |-> <<>>]

NothingSaved == [intact |-> FALSE, st |-> EmptyStore]

\* removeDocument(doc_id): the id leaves the document store and the lookup, its
\* offset is left in the index as a tombstone; an unknown id changes nothing
removeDocument(st, doc_id) ==
    IF doc_id \notin DOMAIN st.doc_id_to_index_
    THEN [st EXCEPT !.document_store_ = Restrict(@, DOMAIN @ \ {doc_id})]
    ELSE [st EXCEPT !.document_store_ = Restrict(@, DOMAIN @ \ {doc_id}),
                    !.index_to_doc_id_ = [@ EXCEPT ![st.doc_id_to_index_[doc_id] + 1] = ""],
                    !.doc_id_to_index_ = Restrict(@, DOMAIN @ \ {doc_id})]

\* getDocumentVector(doc) raises std::runtime_error
getDocumentVectorThrows(doc) == ~doc.embedding.has

\* addDocuments({doc}): the embedding is appended to the exact index at offset
\* ntotal and the document is stored under its id, replacing an earlier one
addDocuments(st, doc) ==
    IF getDocumentVectorThrows(doc)
    THEN [st |-> st, thrown |-> "runtime_error"]
    ELSE LET st0 == removeDocument(st, doc.id)
             m == updateDocumentMapping(st0.doc_id_to_index_, st0.index_to_doc_id_,
                                        doc.id, Len(st0.flat_index_))
         IN [st |-> [st0 EXCEPT !.flat_index_ = Append(@, doc.embedding.value),
                                !.doc_id_to_index_ = m.d2i,
                                !.index_to_doc_id_ = m.i2d,
                                !.document_store_ =
                                    [k \in DOMAIN st0.document_store_ \cup {doc.id} |->
                                        IF k = doc.id THEN doc ELSE st0.document_store_[k]]],
             thrown |-> "none"]

\* search(query_vector, top_k): a cached list when there is one, else the
\* processed hits of the exact index, which are then cached
search(st, cache, cap, query_vector, top_k, t) ==
    LET key == generateCacheKey(query_vector, top_k)
        cached == getFromCache(cache, key, t)
        raw == FaissSearch(st.flat_index_, query_vector, top_k)
        results == processSearchResults(st.index_to_doc_id_, st.document_store_,
                                        raw.distances, raw.indices, 1)
    IN IF cached.hit
       THEN {[results |-> cached.results, cache |-> cache, hit |-> TRUE, raw |-> NoHits]}
       ELSE {[results |-> results, cache |-> c, hit |-> FALSE, raw |-> raw] :
                c \in addToCache(cache, cap, key, results, t)}

\* std::remove_if + erase over books_ that stops after the first match
removeBookFromListFirstOnly(books, book_id) ==
    IF \E i \in DOMAIN books : books[i].id = book_id
    THEN LET i == CHOOSE i \in DOMAIN books :
                    books[i].id = book_id /\ \A j \in 1..(i - 1) : books[j].id # book_id
         IN SubSeq(books, 1, i - 1) \o SubSeq(books, i + 1, Len(books))
    ELSE SubSeq(books, 1, Len(books) - 1)

\* removeBook: books_.erase(std::remove_if(..., id == book_id), books_.end())
removeBookFromList(books, book_id) ==
    SelectSeq(books, LAMBDA b : b.id # book_id)

\* updateBook: replace the book with the same id, or append it
updateBookInList(books, book) ==
    IF \E i \in DOMAIN books : books[i].id = book.id
    THEN LET i == CHOOSE i \in DOMAIN books :
                    books[i].id = book.id /\ \A j \in 1..(i - 1) : books[j].id # book.id
         IN [books EXCEPT ![i] = book]
    ELSE Append(books, book)

\* BookPreprocessor::createDocument(book), with the embedding the embedding
\* provider returned for its text
createDocument(book, embedding, t) ==
    Document(book.id, book.title, ("title" :> JString(book.title)), Some(embedding), t)

----------------------------------------------------------------------------
(* Inputs *)

PlainMetadata == ("title" :> JString("T"))
NumericAuthorMetadata == ("title" :> JString("T")) @@ ("author" :> JNumber(7))

\* documents handed to addDocuments: with either embedding, one whose author
\* is not a string, one without an embedding
SampleDocs(t) ==
    {Document("a", "text", PlainMetadata, Some(<<1, 0>>), t),
     Document("b", "text", PlainMetadata, Some(<<0, 1>>), t),
     Document("b", "text", NumericAuthorMetadata, Some(<<1, 0>>), t),
     Document("a", "text", PlainMetadata, nullopt, t)}

SampleBooks == {[id |-> id, title |-> "T"] : id \in DocIds}

\* the embedding provider is a function of the text: one vector per book
EmbeddingOf(book) == IF book.id = "a" THEN <<1, 0>> ELSE <<0, 1>>

----------------------------------------------------------------------------
(* Actions on the cache alone *)

Tick ==
    /\ \E d \in TickSteps : now + d <= MaxTime /\ now' = now + d
    /\ last_op' = "tick"
    /\ repeated' = FALSE
    /\ UNCHANGED engineVars
    /\ last_id' = ""
    /\ UNCHANGED <<cache_size_, search_cache_, got, put, storeVars, restVars>>

AddToCache ==
    /\ \E key \in SampleKeys, results \in SampleResults :
         \E c \in addToCache(search_cache_, cache_size_, key, results, now) :
            /\ search_cache_' = c
            /\ put' = [key |-> key, before |-> Cardinality(DOMAIN search_cache_)]
    /\ last_op' = "addToCache"
    /\ repeated' = FALSE
    /\ UNCHANGED engineVars
    /\ last_id' = ""
    /\ UNCHANGED <<now, cache_size_, got, storeVars, restVars>>

GetFromCache ==
    /\ \E key \in SampleKeys : got' = getFromCache(search_cache_, key, now)
    /\ last_op' = "getFromCache"
    /\ repeated' = FALSE
    /\ UNCHANGED engineVars
    /\ last_id' = ""
    /\ UNCHANGED <<now, cache_size_, search_cache_, put, storeVars, restVars>>

ClearCache ==
    /\ search_cache_' = <<>>
    /\ last_op' = "clearCache"
    /\ repeated' = FALSE
    /\ UNCHANGED engineVars
    /\ last_id' = ""
    /\ UNCHANGED <<now, cache_size_, got, put, storeVars, restVars>>

SetCacheSize ==
    /\ \E size \in 1..MaxCap :
         /\ cache_size_' = size
         /\ search_cache_' = setCacheSize(search_cache_, size, now)
    /\ last_op' = "setCacheSize"
    /\ repeated' = FALSE
    /\ UNCHANGED engineVars
    /\ last_id' = ""
    /\ UNCHANGED <<now, got, put, storeVars, restVars>>

----------------------------------------------------------------------------
(* Actions on the store, the catalog list and the snapshot *)

\* BookVectorStore::addDocuments({doc}), called on the store directly
AddDocuments ==
    /\ Len(flat_index_) < MaxVectors
    /\ \E doc \in SampleDocs(now) :
         LET r == addDocuments(St, doc)
         IN /\ SetStore(r.st)
            /\ thrown' = r.thrown
            /\ search_cache_' = IF r.thrown = "none" THEN <<>> ELSE search_cache_
            /\ removed' = IF r.thrown = "none" THEN removed \ {doc.id} ELSE removed
            /\ last_id' = doc.id
    /\ last_op' = "addDocuments"
    /\ repeated' = FALSE
    /\ UNCHANGED engineVars
    /\ fresh' = FALSE
    /\ UNCHANGED <<now, cache_size_, got, put, books_, disk, last_results, last_raw, saved>>

\* BookRecommender::updateBook(book)
UpdateBook ==
    /\ Len(flat_index_) < MaxVectors
    /\ \E book \in SampleBooks :
         LET r == addDocuments(St, createDocument(book, EmbeddingOf(book), now))
         IN /\ books_' = updateBookInList(books_, book)
            /\ SetStore(r.st)
            /\ thrown' = r.thrown
            /\ search_cache_' = <<>>
            /\ removed' = removed \ {book.id}
            /\ last_id' = book.id
    /\ last_op' = "updateBook"
    /\ repeated' = FALSE
    /\ UNCHANGED engineVars
    /\ fresh' = FALSE
    /\ UNCHANGED <<now, cache_size_, got, put, disk, last_results, last_raw, saved>>

\* BookRecommender::removeBook(book_id)
RemoveBook ==
    /\ \E book_id \in DocIds :
         /\ books_' = removeBookFromList(books_, book_id)
         /\ SetStore(removeDocument(St, book_id))
         /\ removed' = removed \cup {book_id}
         /\ last_id' = book_id
         /\ repeated' = (last_op = "removeBook" /\ last_id = book_id)
         /\ UNCHANGED engineVars
    /\ search_cache_' = <<>>
    /\ thrown' = "none"
    /\ last_op' = "removeBook"
    /\ fresh' = FALSE
    /\ UNCHANGED <<now, cache_size_, got, put, disk, last_results, last_raw, saved>>

\* BookVectorStore::search(query_vector, top_k)
Search ==
    /\ \E q \in SampleVectors, k \in 1..MaxTopK :
         \E r \in search(St, search_cache_, cache_size_, q, k, now) :
            /\ last_results' = r.results
            /\ search_cache_' = r.cache
    /\ thrown' = "none"
    /\ last_op' = "search"
    /\ repeated' = FALSE
    /\ UNCHANGED engineVars
    /\ last_id' = ""
    /\ UNCHANGED <<now, cache_size_, got, put, storeVars, books_, disk, last_raw, removed,
                   saved, fresh>>

\* BookVectorStore::saveIndex(path)
SaveIndex ==
    /\ \E order \in IterationOrders(DOMAIN document_store_) :
         LET r == saveIndex(St, order)
         IN /\ disk' = r.snapshot
            /\ thrown' = r.thrown
            /\ saved' = IF r.thrown = "none" THEN [intact |-> TRUE, st |-> St]
                        ELSE NothingSaved
    /\ last_op' = "saveIndex"
    /\ repeated' = FALSE
    /\ UNCHANGED engineVars
    /\ last_id' = ""
    /\ UNCHANGED <<cacheVars, storeVars, books_, last_results, last_raw, removed, fresh>>

\* BookVectorStore::loadIndex(path)
LoadIndex ==
    /\ \E r \in loadIndex(St, disk, now) :
         /\ SetStore(r.st)
         /\ thrown' = r.thrown
         /\ removed' = removed \ DOMAIN r.st.document_store_
    /\ last_op' = "loadIndex"
    /\ repeated' = FALSE
    /\ UNCHANGED engineVars
    /\ last_id' = ""
    /\ UNCHANGED <<cacheVars, books_, disk, last_results, last_raw, saved, fresh>>

\* a new recommender over an empty catalog, with a new BookVectorStore
NewStore ==
    /\ SetStore(EmptyStore)
    /\ search_cache_' = <<>>
    /\ books_' = <<>>
    /\ thrown' = "none"
    /\ last_results' = <<>>
    /\ last_raw' = NoHits
    /\ removed' = {}
    /\ fresh' = TRUE
    /\ last_op' = "new"
    /\ repeated' = FALSE
    /\ UNCHANGED engineVars
    /\ last_id' = ""
    /\ UNCHANGED <<now, cache_size_, got, put, disk, saved>>

\* the environment removes one artifact of the snapshot
DeleteArtifact ==
    /\ \E which \in {"flat", "ivf", "mapping"} :
         /\ disk[which].exists
         /\ disk' = [disk EXCEPT ![which] = IF which = "mapping" THEN NoMapping ELSE NoFile]
    /\ saved' = NothingSaved
    /\ last_op' = "deleteArtifact"
    /\ repeated' = FALSE
    /\ UNCHANGED engineVars
    /\ last_id' = ""
    /\ UNCHANGED <<cacheVars, storeVars, books_, thrown, last_results, last_raw, removed, fresh>>

\* the mapping artifact loses its last record, its count field stays
TruncateMapping ==
    /\ disk.mapping.exists
    /\ Len(disk.mapping.records) > 0
    /\ disk' = [disk EXCEPT !.mapping.records = SubSeq(@, 1, Len(@) - 1)]
    /\ saved' = NothingSaved
    /\ last_op' = "truncateMapping"
    /\ repeated' = FALSE
    /\ UNCHANGED engineVars
    /\ last_id' = ""
    /\ UNCHANGED <<cacheVars, storeVars, books_, thrown, last_results, last_raw, removed, fresh>>

\* one record of the mapping artifact is overwritten: with bytes that are not
\* JSON, or with a document whose id is a number
CorruptRecord ==
    /\ disk.mapping.exists
    /\ \E i \in DOMAIN disk.mapping.records, kind \in {"not_json", "wrong_type"} :
         LET rec == disk.mapping.records[i]
         IN /\ rec.ok
            /\ disk' = [disk EXCEPT !.mapping.records[i] =
                          IF kind = "not_json" THEN NotJson
                          ELSE JsonRecord([rec.json EXCEPT !["id"] = JNumber(7)])]
    /\ saved' = NothingSaved
    /\ last_op' = "corruptRecord"
    /\ repeated' = FALSE
    /\ UNCHANGED engineVars
    /\ last_id' = ""
    /\ UNCHANGED <<cacheVars, storeVars, books_, thrown, last_results, last_raw, removed, fresh>>

\* a snapshot written by another tool: one record carries no embedding
StripEmbedding ==
    /\ disk.mapping.exists
    /\ \E i \in DOMAIN disk.mapping.records :
         LET rec == disk.mapping.records[i]
         IN /\ rec.ok
            /\ "embedding" \in DOMAIN rec.json
            /\ disk' = [disk EXCEPT !.mapping.records[i] =
                          JsonRecord(Restrict(rec.json, DOMAIN rec.json \ {"embedding"}))]
    /\ saved' = NothingSaved
    /\ last_op' = "stripEmbedding"
    /\ repeated' = FALSE
    /\ UNCHANGED engineVars
    /\ last_id' = ""
    /\ UNCHANGED <<cacheVars, storeVars, books_, thrown, last_results, last_raw, removed, fresh>>

\* processSearchResults applied to the raw hits of one index search: offsets
\* of the exact index or -1, under strictly falling distances. The function
\* is const and reads nothing of an earlier run, so one run per store covers
\* every run
ProcessHits ==
    /\ last_op = "init"
    /\ \E n \in 0..MaxHits :
         \E indices \in [1..n -> -1..(Len(flat_index_) - 1)] :
            LET distances == [i \in 1..n |-> n - i]
            IN /\ last_raw' = [indices |-> indices, distances |-> distances]
               /\ last_results' = processSearchResults(index_to_doc_id_, document_store_,
                                                       distances, indices, 1)
    /\ thrown' = "none"
    /\ last_op' = "processSearchResults"
    /\ repeated' = FALSE
    /\ UNCHANGED engineVars
    /\ last_id' = ""
    /\ UNCHANGED <<cacheVars, storeVars, books_, disk, removed, saved, fresh>>

\* stores as add, remove and a load that stopped half-way leave them: ids at
\* offsets, tombstones, documents under ids the mapping knows
InitHits ==
    /\ now = 0
    /\ cache_size_ = MaxCap
    /\ search_cache_ = <<>>
    /\ got = NoEntry
    /\ put = [key |-> "", before |-> 0]
    /\ last_op = "init"
    /\ repeated = FALSE
    /\ dimension_ = SampleDimension
    /\ call = NoCall
    /\ recommendations = <<>>
    /\ load_pc = Idle
    /\ last_id = ""
    /\ \E n \in 0..MaxOffsets : index_to_doc_id_ \in [1..n -> DocIds \cup {""}]
    /\ flat_index_ = [i \in 1..MaxOffsets |-> <<1, 0>>]
    /\ \E ids \in SUBSET {index_to_doc_id_[i] : i \in DOMAIN index_to_doc_id_} :
         /\ "" \notin ids
         /\ document_store_ \in [ids -> SampleDocs(0)]
         /\ \A id \in ids : document_store_[id].id = id
         /\ doc_id_to_index_ \in [ids -> 0..(MaxOffsets - 1)]
         /\ \A id \in ids :
               /\ doc_id_to_index_[id] < Len(index_to_doc_id_)
               /\ index_to_doc_id_[doc_id_to_index_[id] + 1] = id
               /\ \A i \in DOMAIN index_to_doc_id_ :
                     index_to_doc_id_[i] = id => i <= doc_id_to_index_[id] + 1
    /\ ivf_index_ = <<>>
    /\ is_trained_ = FALSE
    /\ books_ = <<>>
    /\ disk = [flat |-> NoFile, ivf |-> NoFile, mapping |-> NoMapping]
    /\ thrown = "none"
    /\ last_results = <<>>
    /\ last_raw = NoHits
    /\ removed = {}
    /\ saved = NothingSaved
    /\ fresh = FALSE

Init ==
    /\ now = 0
    /\ cache_size_ \in 1..MaxCap
    /\ search_cache_ = <<>>
    /\ got = NoEntry
    /\ put = [key |-> "", before |-> 0]
    /\ last_op = "init"
    /\ repeated = FALSE
    /\ dimension_ = SampleDimension
    /\ call = NoCall
    /\ recommendations = <<>>
    /\ load_pc = Idle
    /\ last_id = ""
    /\ document_store_ = <<>>
    /\ doc_id_to_index_ = <<>>
    /\ index_to_doc_id_ = <<>>
    /\ flat_index_ = <<>>
    /\ ivf_index_ = <<>>
    /\ is_trained_ = FALSE
    /\ books_ = <<>>
    /\ disk = [flat |-> NoFile, ivf |-> NoFile, mapping |-> NoMapping]
    /\ thrown = "none"
    /\ last_results = <<>>
    /\ last_raw = NoHits
    /\ removed = {}
    /\ saved = NothingSaved
    /\ fresh = TRUE

NextCache == Tick \/ AddToCache \/ GetFromCache \/ ClearCache
SpecCache == Init /\ [][NextCache]_vars

\* the recommender in use: books come and go, searches run
Next == UpdateBook \/ RemoveBook \/ Search
Spec == Init /\ [][Next]_vars

\* searches against a store that is saved and loaded
NextReload == UpdateBook \/ Search \/ SaveIndex \/ LoadIndex
SpecReload == Init /\ [][NextReload]_vars

\* result processing over the offsets an index search can hand back
NextHits == ProcessHits
SpecHits == InitHits /\ [][NextHits]_vars

\* a store constructed with the largest capacity
InitLargest ==
    /\ Init
    /\ cache_size_ = MaxCap

\* the store and its snapshot, which the environment can damage
NextPersist ==
    \/ AddDocuments \/ SaveIndex \/ LoadIndex \/ NewStore
    \/ DeleteArtifact \/ TruncateMapping \/ CorruptRecord
SpecPersist == InitLargest /\ [][NextPersist]_vars

\* snapshots written by one store and read by a new one
NextRoundTrip == AddDocuments \/ SaveIndex \/ LoadIndex \/ NewStore \/ StripEmbedding
SpecRoundTrip == InitLargest /\ [][NextRoundTrip]_vars

NextCacheResize == Tick \/ AddToCache \/ GetFromCache \/ ClearCache \/ SetCacheSize
SpecCacheResize == Init /\ [][NextCacheResize]_vars

----------------------------------------------------------------------------
(* loadIndex on one thread while another thread searches.  The class has no *)
(* mutex and loadIndex takes no lock, so a search can run between any two   *)
(* of its statements.                                                       *)

\* flat_index_.reset(faiss::read_index(path + ".flat"))
LoadFlat ==
    /\ load_pc.step = "idle"
    /\ IF disk.flat.exists
       THEN /\ flat_index_' = disk.flat.vectors
            /\ load_pc' = [step |-> "flat", i |-> 0]
            /\ thrown' = "none"
       ELSE /\ thrown' = "FaissException"
            /\ UNCHANGED <<flat_index_, load_pc>>
    /\ last_op' = "loadIndex"
    /\ last_id' = ""
    /\ repeated' = FALSE
    /\ fresh' = FALSE
    /\ UNCHANGED <<cacheVars, document_store_, doc_id_to_index_, index_to_doc_id_, ivf_index_,
                   is_trained_, books_, disk, last_results, last_raw, removed, saved,
                   dimension_, call, recommendations>>

\* ivf_index_.reset(dynamic_cast<...>(faiss::read_index(path + ".ivf")))
LoadIvf ==
    /\ load_pc.step = "flat"
    /\ IF disk.ivf.exists
       THEN /\ ivf_index_' = disk.ivf.vectors
            /\ load_pc' = [step |-> "ivf", i |-> 0]
            /\ thrown' = "none"
       ELSE /\ thrown' = "FaissException"
            /\ load_pc' = Idle
            /\ UNCHANGED ivf_index_
    /\ last_op' = "loadIndex"
    /\ last_id' = ""
    /\ repeated' = FALSE
    /\ UNCHANGED <<cacheVars, document_store_, doc_id_to_index_, index_to_doc_id_, flat_index_,
                   is_trained_, books_, disk, last_results, last_raw, removed, saved, fresh,
                   dimension_, call, recommendations>>

\* document_store_.clear(); doc_id_to_index_.clear(); index_to_doc_id_.clear()
LoadClear ==
    /\ load_pc.step = "ivf"
    /\ document_store_' = <<>>
    /\ doc_id_to_index_' = <<>>
    /\ index_to_doc_id_' = <<>>
    /\ load_pc' = [step |-> "reading", i |-> 0]
    /\ thrown' = "none"
    /\ last_op' = "loadIndex"
    /\ last_id' = ""
    /\ repeated' = FALSE
    /\ UNCHANGED <<cacheVars, flat_index_, ivf_index_, is_trained_, books_, disk, last_results,
                   last_raw, removed, saved, fresh, dimension_, call, recommendations>>

\* one turn of the record loop, or its end: is_trained_ = true
LoadRecord ==
    /\ load_pc.step = "reading"
    /\ \E doc_count \in IF disk.mapping.exists THEN {disk.mapping.count} ELSE {0, 1} :
         \E r \in IF load_pc.i >= doc_count
                  THEN {[st |-> [St EXCEPT !.is_trained_ = TRUE], thrown |-> "none", done |-> TRUE]}
                  ELSE IF load_pc.i >= Len(disk.mapping.records)
                  THEN {[st |-> St, thrown |-> e, done |-> TRUE] :
                            e \in {"parse_error", "length_error"}}
                  ELSE IF ~disk.mapping.records[load_pc.i + 1].ok
                  THEN {[st |-> St, thrown |-> "parse_error", done |-> TRUE]}
                  ELSE IF fromJsonThrows(disk.mapping.records[load_pc.i + 1].json)
                  THEN {[st |-> St, thrown |-> "type_error", done |-> TRUE]}
                  ELSE LET doc == fromJson(disk.mapping.records[load_pc.i + 1].json, now)
                           m == updateDocumentMapping(doc_id_to_index_, index_to_doc_id_,
                                                      doc.id, load_pc.i)
                       IN {[st |-> [St EXCEPT !.doc_id_to_index_ = m.d2i,
                                              !.index_to_doc_id_ = m.i2d,
                                              !.document_store_ =
                                                  [k \in DOMAIN document_store_ \cup {doc.id} |->
                                                      IF k = doc.id THEN doc
                                                      ELSE document_store_[k]]],
                            thrown |-> "none", done |-> FALSE]} :
            /\ SetStore(r.st)
            /\ thrown' = r.thrown
            /\ load_pc' = IF r.done THEN Idle ELSE [load_pc EXCEPT !.i = @ + 1]
    /\ last_op' = "loadIndex"
    /\ last_id' = ""
    /\ repeated' = FALSE
    /\ UNCHANGED <<cacheVars, books_, disk, last_results, last_raw, removed, saved, fresh,
                   dimension_, call, recommendations>>

\* the writer thread's other operations run between its loadIndex calls
WriterUpdateBook ==
    /\ load_pc.step = "idle"
    /\ UpdateBook

WriterSaveIndex ==
    /\ load_pc.step = "idle"
    /\ SaveIndex

NextConcurrent ==
    \/ WriterUpdateBook \/ WriterSaveIndex
    \/ LoadFlat \/ LoadIvf \/ LoadClear \/ LoadRecord
    \/ Search
SpecConcurrent == Init /\ [][NextConcurrent]_vars

----------------------------------------------------------------------------
(* Catalog items as the query engine rebuilds them from stored metadata.    *)
(* Ratings are held in tenths (45 is 4.5); strings the code looks into      *)
(* (dates, queries) are sequences of characters or of words.                *)

JBool(b) == [t |-> "boolean", v |-> b]

\* the keys BookQueryEngine::processSearchResults reads with at(), and the
\* JSON type get<T>() needs at each
RequiredKeys ==
    [title |-> "string", author |-> "string", genres |-> "array", page_count |-> "number",
     average_rating |-> "number", ratings_count |-> "number", review_count |-> "number",
     language |-> "string", publisher |-> "string", publication_date |-> "string",
     isbn13 |-> "string", is_ebook |-> "boolean"]

\* at(key) raises std::out_of_range
MissingKeys(doc) == DOMAIN RequiredKeys \ DOMAIN doc.metadata

\* get<T>() raises nlohmann's type_error
MistypedKeys(doc) ==
    {k \in DOMAIN RequiredKeys \cap DOMAIN doc.metadata :
        \/ doc.metadata[k].t # RequiredKeys[k]
        \/ k = "genres" /\ getGenreStringThrows(doc)}

\* the Book(...) expression of processSearchResults raises
ReconstructThrows(doc) ==
    MissingKeys(doc) # {} \/ MistypedKeys(doc) # {} \/ getSeriesThrows(doc)

\* Book::Book over the document's id, text and metadata
ReconstructBook(doc) ==
    [id |-> doc.id,
     title |-> doc.metadata["title"].v,
     author |-> doc.metadata["author"].v,
     genres |-> [i \in DOMAIN doc.metadata["genres"].v |-> doc.metadata["genres"].v[i].v],
     description |-> doc.text,
     page_count |-> doc.metadata["page_count"].v,
     average_rating |-> doc.metadata["average_rating"].v,
     ratings_count |-> doc.metadata["ratings_count"].v,
     review_count |-> doc.metadata["review_count"].v,
     series |-> getSeries(doc),
     language |-> doc.metadata["language"].v,
     publisher |-> doc.metadata["publisher"].v,
     publication_date |-> doc.metadata["publication_date"].v,
     isbn13 |-> doc.metadata["isbn13"].v,
     is_ebook |-> doc.metadata["is_ebook"].v]

DigitChars == <<"0", "1", "2", "3", "4", "5", "6", "7", "8", "9">>

IsDigit(c) == \E d \in DOMAIN DigitChars : DigitChars[d] = c

DigitValue(c) == (CHOOSE d \in DOMAIN DigitChars : DigitChars[d] = c) - 1

\* Book::getPublicationYear: the first run of four digits (std::regex_search
\* with \d{4}) read as a number, 0 when there is none
getPublicationYear(book) ==
    LET date == book.publication_date
        starts == {p \in 1..(Len(date) - 3) : \A q \in p..(p + 3) : IsDigit(date[q])}
    IN IF starts = {} THEN 0
       ELSE LET p == CHOOSE p \in starts : \A q \in starts : p <= q
            IN 1000 * DigitValue(date[p]) + 100 * DigitValue(date[p + 1])
               + 10 * DigitValue(date[p + 2]) + DigitValue(date[p + 3])

\* a popularity score without the cap on the ratings count
getPopularityScoreUncapped(book) ==
    7 * book.ratings_count + 600 * book.average_rating

\* Book::getPopularityScore, times 1000:
\* (min(ratings_count / 10000, 1) * 0.7 + (average_rating / 5) * 0.3) * 100
getPopularityScore(book) ==
    7 * (IF book.ratings_count < 10000 THEN book.ratings_count ELSE 10000)
    + 600 * book.average_rating

\* the elements of a list
Range(seq) == {seq[i] : i \in DOMAIN seq}

\* a filter without any clause
NoFilter ==
    [genres |-> nullopt, min_rating |-> nullopt, max_rating |-> nullopt,
     min_ratings_count |-> nullopt, publication_year_start |-> nullopt,
     publication_year_end |-> nullopt, language |-> nullopt, ebook_only |-> nullopt,
     authors |-> nullopt]

\* BookQueryEngine::passesFilter
passesFilter(book, filter) ==
    /\ (filter.genres.has /\ filter.genres.value # <<>>) =>
            Range(book.genres) \cap Range(filter.genres.value) # {}
    /\ ~(filter.min_rating.has /\ book.average_rating < filter.min_rating.value)
    /\ ~(filter.max_rating.has /\ book.average_rating > filter.max_rating.value)
    /\ ~(filter.min_ratings_count.has /\ book.ratings_count < filter.min_ratings_count.value)
    /\ ~(filter.publication_year_start.has
            /\ getPublicationYear(book) < filter.publication_year_start.value)
    /\ ~(filter.publication_year_end.has
            /\ getPublicationYear(book) > filter.publication_year_end.value)
    /\ ~(filter.language.has /\ book.language # filter.language.value)
    /\ ~(filter.ebook_only.has /\ ~book.is_ebook)
    /\ (filter.authors.has /\ filter.authors.value # <<>>) =>
            book.author \in Range(filter.authors.value)

----------------------------------------------------------------------------
(* Explanation, diversity and ranking.  Queries are sequences of words.     *)

\* std::string::find(needle) != npos, word by word
Contains(query, needle) ==
    /\ needle # <<>>
    /\ \E p \in 1..(Len(query) - Len(needle) + 1) :
          \A q \in DOMAIN needle : query[p + q - 1] = needle[q]

\* the keyword lists of BookQueryEngine::enhanceQuery, in their order
GenreKeywords ==
    <<[genre |-> <<"fantasy">>, keywords |-> <<"magic", "dragons", "adventure", "quest">>],
      [genre |-> <<"science", "fiction">>, keywords |-> <<"space", "technology", "future", "sci-fi">>],
      [genre |-> <<"mystery">>, keywords |-> <<"detective", "crime", "investigation", "thriller">>],
      [genre |-> <<"romance">>, keywords |-> <<"love", "relationship", "emotional">>],
      [genre |-> <<"horror">>, keywords |-> <<"scary", "supernatural", "terror", "dark">>]>>

RECURSIVE GenreEnhancements(_, _)
GenreEnhancements(query, i) ==
    IF i > Len(GenreKeywords) THEN <<>>
    ELSE (IF Contains(query, GenreKeywords[i].genre) THEN GenreKeywords[i].keywords ELSE <<>>)
         \o GenreEnhancements(query, i + 1)

\* BookQueryEngine::enhanceQuery
enhanceQuery(query) ==
    query
    \o (IF Contains(query, <<"like">>) THEN <<"similar", "books", "recommendations">> ELSE <<>>)
    \o (IF Contains(query, <<"author">>) THEN <<"books", "written", "by">> ELSE <<>>)
    \o (IF Contains(query, <<"series">>) THEN <<"book", "series", "sequel", "prequel">> ELSE <<>>)
    \o GenreEnhancements(query, 1)

\* operator<< of a rating held in tenths: 45 prints as 4.5, 40 as 4
FormatRating(r) ==
    ToString(r \div 10) \o (IF r % 10 = 0 THEN "" ELSE "." \o ToString(r % 10))

\* generateExplanation reads genres[0] of an empty genre list
generateExplanationReadsOutside(book, query) ==
    query # <<>> /\ book.genres = <<>>

RECURSIVE GenreList(_, _)
GenreList(genres, i) ==
    IF i > Len(genres) \/ i > 3 THEN ""
    ELSE (IF i > 1 THEN (IF i = Len(genres) THEN " and " ELSE ", ") ELSE "")
         \o genres[i] \o GenreList(genres, i + 1)

\* what a read of genres[0] past the end of an empty list yields when the
\* process survives it
GarbageText == "\\?"

\* BookQueryEngine::generateExplanation
generateExplanation(book, query) ==
    "Recommended because "
    \o (IF query # <<>>
        THEN "it matches your interest in "
             \o (IF book.genres = <<>> THEN GarbageText ELSE book.genres[1])
             \o (IF Contains(query, <<book.author>>)
                 THEN " and is written by " \o book.author ELSE "")
        ELSE "")
    \o ". It has a rating of " \o FormatRating(book.average_rating)
    \o "/5 from " \o ToString(book.ratings_count) \o " readers"
    \o (IF book.series.t = "string"
        THEN " and is part of the " \o book.series.v \o " series" ELSE "")
    \o ". This book combines elements of " \o GenreList(book.genres, 1)

\* BookQueryEngine::calculateDiversityScore as the fraction num / den:
\* (genres / (n * 3) + authors / n) / 2
calculateDiversityScore(results) ==
    IF results = <<>> THEN [num |-> 0, den |-> 1]
    ELSE LET unique_genres == UNION {Range(results[i].book.genres) : i \in DOMAIN results}
             unique_authors == {results[i].book.author : i \in DOMAIN results}
         IN [num |-> Cardinality(unique_genres) + 3 * Cardinality(unique_authors),
             den |-> 6 * Len(results)]

\* a score in which every result carries the diversity of its own book
\* instead of the one value of the batch
CompositeScoreOwnDiversity(rec, diversity_score) ==
    LET own == calculateDiversityScore(<<rec>>)
    IN 5000 * own.den * rec.similarity_score
       + 3 * own.den * getPopularityScore(rec.book)
       + 2000 * own.num

\* the score rankResults compares, times 10000 * den:
\* 0.5 * similarity + 0.3 * popularity + 0.2 * diversity
CompositeScore(rec, diversity_score) ==
    5000 * diversity_score.den * rec.similarity_score
    + 3 * diversity_score.den * getPopularityScore(rec.book)
    + 2000 * diversity_score.num

Orderings(n) == {p \in [1..n -> 1..n] : \A i, j \in 1..n : p[i] = p[j] => i = j}

\* any reordering at all
rankResultsUnsorted(results) ==
    {[i \in DOMAIN results |-> results[p[i]]] : p \in Orderings(Len(results))}

\* BookQueryEngine::rankResults: std::sort by falling score.  std::sort is not
\* stable: elements of equal score come out in any order
rankResults(results) ==
    LET diversity_score == calculateDiversityScore(results)
    IN {ranked \in {[i \in DOMAIN results |-> results[p[i]]] :
                        p \in Orderings(Len(results))} :
            \A i \in 1..(Len(ranked) - 1) :
                CompositeScore(ranked[i], diversity_score)
                    >= CompositeScore(ranked[i + 1], diversity_score)}

\* BookQueryEngine::processSearchResults: every candidate is rebuilt, the ones
\* that pass the filter are kept with their similarity and an explanation.
\* The first candidate that cannot be rebuilt ends the loop by an exception;
\* outside tells that an explanation was built from a read outside a genre list.
RECURSIVE BookQueryEngine_processSearchResults(_, _, _, _)
BookQueryEngine_processSearchResults(results, query, filter, i) ==
    IF i > Len(results) THEN [thrown |-> "none", outside |-> FALSE, recommendations |-> <<>>]
    ELSE IF MissingKeys(results[i].document) # {}
    THEN [thrown |-> "out_of_range", outside |-> FALSE, recommendations |-> <<>>]
    ELSE IF ReconstructThrows(results[i].document)
    THEN [thrown |-> "type_error", outside |-> FALSE, recommendations |-> <<>>]
    ELSE LET book == ReconstructBook(results[i].document)
             rest == BookQueryEngine_processSearchResults(results, query, filter, i + 1)
         IN IF ~passesFilter(book, filter) THEN rest
            ELSE IF rest.thrown # "none"
            THEN [rest EXCEPT !.outside = @ \/ generateExplanationReadsOutside(book, query)]
            ELSE [rest EXCEPT !.outside = @ \/ generateExplanationReadsOutside(book, query),
                              !.recommendations =
                    <<[book |-> book, similarity_score |-> results[i].similarity,
                       explanation |-> generateExplanation(book, query)]>> \o @]

----------------------------------------------------------------------------
(* The entry points of the query engine *)

\* the length of the vector vectorizeQuery falls back to
FallbackDimension == 384

RECURSIVE SumOfSquaresFrom(_, _)
SumOfSquaresFrom(v, i) ==
    IF i > Len(v) THEN 0 ELSE v[i] * v[i] + SumOfSquaresFrom(v, i + 1)

\* std::sqrt on the sums of squares the sample embeddings have
Sqrt(n) == CHOOSE r \in 0..n : r * r <= n /\ (r + 1) * (r + 1) > n

\* BookQueryEngine::vectorizeQuery: the collaborator's embedding divided by
\* its norm when that is not 0; 384 zeros when the collaborator fails
vectorizeQuery(embed) ==
    IF ~embed.ok THEN [i \in 1..FallbackDimension |-> 0]
    ELSE LET norm == Sqrt(SumOfSquaresFrom(embed.vector, 1))
         IN IF norm > 0 THEN [i \in DOMAIN embed.vector |-> embed.vector[i] \div norm]
            ELSE embed.vector

\* what a call into the vector store gives the engine
StoreAnswers(exception, answers) ==
    {[thrown |-> exception, results |-> a.results, cache |-> a.cache] : a \in answers}

\* BookVectorStore::search as the engine calls it: IndexError when the query
\* vector has not the store's dimension
searchChecked(st, cache, cap, dimension, query_vector, top_k, t) ==
    IF Len(query_vector) # dimension
    THEN {[thrown |-> "IndexError", results |-> <<>>, cache |-> cache]}
    ELSE StoreAnswers("none", search(st, cache, cap, query_vector, top_k, t))

\* BookVectorStore::searchSimilar: IndexError for an unknown id, else a
\* search with the stored embedding
searchSimilar(st, cache, cap, dimension, doc_id, top_k, t) ==
    IF doc_id \notin DOMAIN st.document_store_
    THEN {[thrown |-> "IndexError", results |-> <<>>, cache |-> cache]}
    ELSE IF getDocumentVectorThrows(st.document_store_[doc_id])
    THEN {[thrown |-> "runtime_error", results |-> <<>>, cache |-> cache]}
    ELSE searchChecked(st, cache, cap, dimension,
                       st.document_store_[doc_id].embedding.value, top_k, t)

\* recommendations.resize(top_k) when there are more than top_k
Truncate(recs, top_k) == IF Len(recs) > top_k THEN SubSeq(recs, 1, top_k) ELSE recs

\* what a call of an entry point ends in: the list returned, the exception
\* that reaches the caller, the exception caught inside, the candidates the
\* store gave, the list that went into ranking, and the cache afterwards
CallOutcome(recs, exception, caught, candidates, filtered, cache) ==
    [recommendations |-> recs, thrown |-> exception, caught |-> caught,
     candidates |-> candidates, filtered |-> filtered, cache |-> cache]

\* a read outside a genre list is undefined: the process dies, or an
\* exception is raised and caught, or the call goes on with the garbage (and
\* then meets the exception a later candidate raises, if one does)
AfterOutsideRead(candidates, filtered, cache, top_k, later) ==
    {CallOutcome(<<>>, "SIGSEGV", "none", candidates, filtered, cache),
     CallOutcome(<<>>, "none", "length_error", candidates, filtered, cache)}
    \cup (IF later # "none"
          THEN {CallOutcome(<<>>, "none", later, candidates, <<>>, cache)}
          ELSE {CallOutcome(Truncate(ranked, top_k), "none", "none", candidates, filtered,
                            cache) : ranked \in rankResults(filtered)})

\* the part getRecommendations and getSimilarBooks share after the store has
\* answered: rebuild and filter, drop the excluded id, rank, truncate; every
\* exception is caught and turned into an empty list
FinishPipeline(answer, query, filter, top_k, excluded) ==
    IF answer.thrown # "none"
    THEN {CallOutcome(<<>>, "none", answer.thrown, <<>>, <<>>, answer.cache)}
    ELSE LET processed == BookQueryEngine_processSearchResults(answer.results, query, filter, 1)
             filtered == SelectSeq(processed.recommendations,
                                   LAMBDA rec : rec.book.id \notin excluded)
         IN IF processed.outside
            THEN AfterOutsideRead(answer.results, filtered, answer.cache, top_k,
                                  processed.thrown)
            ELSE IF processed.thrown # "none"
            THEN {CallOutcome(<<>>, "none", processed.thrown, answer.results, <<>>, answer.cache)}
            ELSE {CallOutcome(Truncate(ranked, top_k), "none", "none", answer.results,
                              filtered, answer.cache) : ranked \in rankResults(filtered)}

\* BookQueryEngine::getRecommendations (BookRecommender::getRecommendations
\* forwards to it)
getRecommendations(st, cache, cap, dimension, query, filter, top_k, embed, t) ==
    UNION {FinishPipeline(answer, query, filter, top_k, {}) :
            answer \in searchChecked(st, cache, cap, dimension, vectorizeQuery(embed),
                                     top_k * 2, t)}

\* getSimilarBooks without the removal of the query book
getSimilarBooksKeepingSelf(st, cache, cap, dimension, book_id, filter, top_k, t) ==
    UNION {FinishPipeline(answer, <<>>, filter, top_k, {}) :
            answer \in searchSimilar(st, cache, cap, dimension, book_id, top_k * 2, t)}

\* BookQueryEngine::getSimilarBooks
getSimilarBooks(st, cache, cap, dimension, book_id, filter, top_k, t) ==
    UNION {FinishPipeline(answer, <<>>, filter, top_k, {book_id}) :
            answer \in searchSimilar(st, cache, cap, dimension, book_id, top_k * 2, t)}

\* the filter getAuthorRecommendations builds: the author is appended to the
\* caller's author list
AuthorFilter(filter, author) ==
    [filter EXCEPT !.authors = Some(filter.authors.value \o <<author>>)]

\* BookQueryEngine::getAuthorRecommendations
getAuthorRecommendations(st, cache, cap, dimension, author, filter, top_k, embed, t) ==
    getRecommendations(st, cache, cap, dimension, <<"books", "by", "author", author>>,
                       AuthorFilter(filter, author), top_k, embed, t)

\* BookQueryEngine::getSeriesRecommendations
getSeriesRecommendations(st, cache, cap, dimension, series, filter, top_k, embed, t) ==
    getRecommendations(st, cache, cap, dimension, <<"books", "in", "series", series>>,
                       filter, top_k, embed, t)

----------------------------------------------------------------------------
(* The query engine over a store of catalog documents *)

\* the store the engine queries is not grown beyond this many vectors
MaxCatalog == 3

\* metadata with every key the engine reads
FullMetadata(title, author, genres, rating, ratings, date, ebook) ==
    [title |-> JString(title), author |-> JString(author),
     genres |-> JArray([i \in DOMAIN genres |-> JString(genres[i])]),
     page_count |-> JNumber(200), average_rating |-> JNumber(rating),
     ratings_count |-> JNumber(ratings), review_count |-> JNumber(500),
     language |-> JString("en"), publisher |-> JString("Pub"),
     publication_date |-> JString(date), isbn13 |-> JString("9781234567890"),
     is_ebook |-> JBool(ebook)]

\* the metadata of the integration test: five keys
FiveKeyMetadata ==
    [title |-> JString("Test Fantasy Book"), author |-> JString("Test Author"),
     genres |-> JArray(<<JString("fantasy")>>), average_rating |-> JNumber(45),
     ratings_count |-> JNumber(1000)]

\* the catalog: a and b tie for a query along the first axis, c differs in
\* every score, d is the document of the integration test, e has no genre
CatalogDocs(t) ==
    {Document("a", "text a", FullMetadata("A", "X", <<"fantasy">>, 45, 1000,
                  <<"2", "0", "2", "3", "-", "0", "1", "-", "0", "1">>, TRUE),
              Some(<<1, 0>>), t),
     Document("b", "text b", FullMetadata("B", "Y", <<"scifi">>, 45, 1000,
                  <<"1", "9", "9", "9">>, FALSE),
              Some(<<1, 0>>), t),
     Document("c", "text c", FullMetadata("C", "X", <<"fantasy", "scifi">>, 40, 3000,
                  <<>>, FALSE),
              Some(<<0, 1>>), t),
     Document("d", "test fantasy book", FiveKeyMetadata, Some(<<1, 0>>), t),
     Document("e", "text e", FullMetadata("E", "Z", <<>>, 30, 500,
                  <<"2", "0", "1", "0">>, FALSE),
              Some(<<0, 1>>), t)}

CatalogIds == {"a", "b", "c", "d", "e", "z"}

SampleQueries == {<<"fantasy", "books">>}

SampleAuthors == {"X", "Y"}

\* filters the entry points are called with
SampleFilters ==
    {NoFilter,
     [NoFilter EXCEPT !.min_rating = Some(41)],
     [NoFilter EXCEPT !.authors = Some(<<"Y">>)]}

\* what the embedding collaborator does with a text: it fails, or returns a
\* vector of the store's dimension
EmbedOutcomes ==
    {[ok |-> FALSE, vector |-> <<>>], [ok |-> TRUE, vector |-> <<2, 0>>],
     [ok |-> TRUE, vector |-> <<0, 1>>]}

\* the engine's calls leave the store and the catalog list alone.  The engine
\* keeps nothing between calls and every add empties the cache, so a list
\* served from the cache is the list a search would compute: the first call
\* on a store (FirstCall) stands for every call on it
AfterCall(op, arg, filter, top_k, embed, r) ==
    /\ call' = [op |-> op, arg |-> arg, filter |-> filter, top_k |-> top_k, embed |-> embed,
                caught |-> r.caught, candidates |-> r.candidates, filtered |-> r.filtered]
    /\ recommendations' = r.recommendations
    /\ thrown' = r.thrown
    /\ search_cache_' = r.cache
    /\ last_op' = op
    /\ repeated' = FALSE
    /\ UNCHANGED <<now, cache_size_, got, put, storeVars, books_, disk, last_results, last_raw,
                   removed, saved, fresh, dimension_, load_pc>>

FirstCall == call = NoCall

\* a document of the catalog that the store does not hold is added to it
\* (by a process that is still alive)
AddCatalogDocument ==
    /\ thrown # "SIGSEGV"
    /\ Len(flat_index_) < MaxCatalog
    /\ \E doc \in CatalogDocs(now) :
         LET r == addDocuments(St, doc)
         IN /\ doc.id \notin DOMAIN document_store_
            /\ SetStore(r.st)
            /\ thrown' = r.thrown
            /\ last_id' = doc.id
    /\ search_cache_' = <<>>
    /\ call' = NoCall
    /\ recommendations' = <<>>
    /\ last_op' = "addDocuments"
    /\ repeated' = FALSE
    /\ fresh' = FALSE
    /\ UNCHANGED <<now, cache_size_, got, put, books_, disk, last_results, last_raw, removed,
                   saved, dimension_, load_pc>>

GetRecommendations ==
    /\ FirstCall
    /\ \E query \in SampleQueries, filter \in SampleFilters, top_k \in 0..MaxTopK,
          embed \in EmbedOutcomes :
           \E r \in getRecommendations(St, search_cache_, cache_size_, dimension_, query, filter,
                                       top_k, embed, now) :
               /\ AfterCall("getRecommendations", query, filter, top_k, embed, r)
               /\ last_id' = ""

GetSimilarBooks ==
    /\ FirstCall
    /\ \E book_id \in CatalogIds, filter \in SampleFilters, top_k \in 0..MaxTopK :
           \E r \in getSimilarBooks(St, search_cache_, cache_size_, dimension_, book_id, filter,
                                    top_k, now) :
               /\ AfterCall("getSimilarBooks", book_id, filter, top_k, [ok |-> TRUE, vector |-> <<>>], r)
               /\ last_id' = book_id

GetAuthorRecommendations ==
    /\ FirstCall
    /\ \E author \in SampleAuthors, filter \in SampleFilters, top_k \in 0..MaxTopK,
          embed \in EmbedOutcomes :
           \E r \in getAuthorRecommendations(St, search_cache_, cache_size_, dimension_, author,
                                             filter, top_k, embed, now) :
               /\ AfterCall("getAuthorRecommendations", author, filter, top_k, embed, r)
               /\ last_id' = ""

GetSeriesRecommendations ==
    /\ FirstCall
    /\ \E series \in {"Series"}, filter \in SampleFilters, top_k \in 0..MaxTopK,
          embed \in EmbedOutcomes :
           \E r \in getSeriesRecommendations(St, search_cache_, cache_size_, dimension_, series,
                                             filter, top_k, embed, now) :
               /\ AfterCall("getSeriesRecommendations", series, filter, top_k, embed, r)
               /\ last_id' = ""

\* a store with room for one cached list
InitSmallest ==
    /\ Init
    /\ cache_size_ = 1

NextQuery ==
    \/ AddCatalogDocument
    \/ GetRecommendations \/ GetSimilarBooks
    \/ GetAuthorRecommendations \/ GetSeriesRecommendations
SpecQuery == InitSmallest /\ [][NextQuery]_vars

(* The filter predicate on its own: passesFilter is const and reads nothing *)
(* but its two arguments.                                                   *)

\* the books the complete documents of the catalog rebuild to
FilterBooks ==
    {ReconstructBook(doc) : doc \in {d \in CatalogDocs(0) : MissingKeys(d) = {}}}

\* QueryFilter values: every clause absent or present, the lists also
\* present and empty, ebook_only also present and false
FilterSpace ==
    [genres : {nullopt, Some(<<>>), Some(<<"fantasy">>)},
     min_rating : {nullopt, Some(40), Some(48)},
     max_rating : {nullopt, Some(40)},
     min_ratings_count : {nullopt, Some(2000)},
     publication_year_start : {nullopt, Some(2000)},
     publication_year_end : {nullopt, Some(2000)},
     language : {nullopt, Some("en"), Some("fr")},
     ebook_only : {nullopt, Some(TRUE), Some(FALSE)},
     authors : {nullopt, Some(<<>>), Some(<<"X">>)}]

\* passesFilter(book, filter) is evaluated
PassesFilter ==
    /\ FirstCall
    /\ \E book \in FilterBooks, filter \in FilterSpace :
         call' = [op |-> "passesFilter", book |-> book, filter |-> filter,
                  result |-> passesFilter(book, filter)]
    /\ last_op' = "passesFilter"
    /\ last_id' = ""
    /\ repeated' = FALSE
    /\ UNCHANGED <<now, cache_size_, search_cache_, got, put, storeVars, books_, disk, thrown,
                   last_results, last_raw, removed, saved, fresh, dimension_, recommendations,
                   load_pc>>

NextFilter == PassesFilter
SpecFilter == InitSmallest /\ [][NextFilter]_vars

----------------------------------------------------------------------------

(* Diversity, popularity and ranking on their own: calculateDiversityScore, *)
(* getPopularityScore and rankResults read nothing but their arguments.     *)

\* Book::Book
Book(id, title, author, genres, description, page_count, average_rating, ratings_count, review_count, series, language, publisher, publication_date, isbn13, is_ebook) ==
    [id |-> id, title |-> title, author |-> author, genres |-> genres,
     description |-> description, page_count |-> page_count,
     average_rating |-> average_rating, ratings_count |-> ratings_count,
     review_count |-> review_count, series |-> series, language |-> language,
     publisher |-> publisher, publication_date |-> publication_date, isbn13 |-> isbn13,
     is_ebook |-> is_ebook]

\* a batch of results handed to ranking has at most this many elements
MaxBatch == 2

\* genre lists of the books of a batch: none, one (two that are disjoint),
\* and more than the three the normalisation assumes
BatchGenres ==
    {<<>>, <<"fantasy">>, <<"sci-fi">>, <<"fantasy", "sci-fi", "horror", "romance">>}

\* the books of a batch, as the test of diversity scoring builds them; the
\* ratings counts are one apart, and far enough apart for the popularity
\* scores to differ by more than 10/3
BatchBooks ==
    {Book("1", "Book1", author, genres, "desc", 200, 40, ratings_count, 500, nullopt,
          "en", "", <<>>, "", FALSE) :
        author \in {"Author1", "Author2"}, genres \in BatchGenres,
        ratings_count \in {1000, 1001, 1477}}

\* RecommendationResult values: the similarity is one of the ends of [-1, 1]
BatchResults ==
    [book : BatchBooks, similarity_score : {-1, 1}, explanation : {"explanation1"}]

\* the batches of at most MaxBatch results
Batches == UNION {[1..n -> BatchResults] : n \in 0..MaxBatch}

\* calculateDiversityScore(results) is evaluated
CalculateDiversityScore ==
    /\ FirstCall
    /\ \E results \in Batches :
         call' = [op |-> "calculateDiversityScore", results |-> results,
                  score |-> calculateDiversityScore(results)]
    /\ last_op' = "calculateDiversityScore"
    /\ last_id' = ""
    /\ repeated' = FALSE
    /\ UNCHANGED <<now, cache_size_, search_cache_, got, put, storeVars, books_, disk, thrown,
                   last_results, last_raw, removed, saved, fresh, dimension_, recommendations,
                   load_pc>>

\* rankResults(results) is run on a batch
RankResults ==
    /\ FirstCall
    /\ \E results \in Batches :
         \E ranked \in rankResults(results) :
            /\ call' = [op |-> "rankResults", results |-> results]
            /\ recommendations' = ranked
    /\ last_op' = "rankResults"
    /\ last_id' = ""
    /\ repeated' = FALSE
    /\ UNCHANGED <<now, cache_size_, search_cache_, got, put, storeVars, books_, disk, thrown,
                   last_results, last_raw, removed, saved, fresh, dimension_, load_pc>>

\* ratings and ratings counts getPopularityScore is evaluated on: the ends
\* of [0, 5] in tenths, and counts on both sides of 10000
PopularityRatings == {0, 25, 50}
PopularityCounts == {0, 1, 9999, 10000, 10001}

PopularityBooks ==
    {Book("1", "Test Book", "Author", <<"fiction">>, "desc", 200, average_rating,
          ratings_count, 50, Some("Series"), "en", "Pub", <<>>, "9781234567890", TRUE) :
        average_rating \in PopularityRatings, ratings_count \in PopularityCounts}

\* getPopularityScore is evaluated on two books
GetPopularityScore ==
    /\ FirstCall
    /\ \E a \in PopularityBooks, b \in PopularityBooks :
         call' = [op |-> "getPopularityScore", a |-> a, b |-> b,
                  score_a |-> getPopularityScore(a), score_b |-> getPopularityScore(b)]
    /\ last_op' = "getPopularityScore"
    /\ last_id' = ""
    /\ repeated' = FALSE
    /\ UNCHANGED <<now, cache_size_, search_cache_, got, put, storeVars, books_, disk, thrown,
                   last_results, last_raw, removed, saved, fresh, dimension_, recommendations,
                   load_pc>>

NextRank == CalculateDiversityScore \/ RankResults \/ GetPopularityScore
SpecRank == InitSmallest /\ [][NextRank]_vars

----------------------------------------------------------------------------

(* Book::toJson and Book::fromJson.  Ratings are held in tenths.            *)

MIN_RATINGS_FOR_RELIABLE == 100

\* Book::getEngagementScore as a fraction; den = 0 stands for the infinity
\* of a division of a positive review count by a ratings count of zero
getEngagementScore(book) ==
    LET weighted == book.average_rating
                        * (IF book.ratings_count < MIN_RATINGS_FOR_RELIABLE
                           THEN book.ratings_count ELSE MIN_RATINGS_FOR_RELIABLE)
    IN IF book.review_count > 0
       THEN [num |-> weighted * book.ratings_count + 5000 * book.review_count,
             den |-> 2000 * book.ratings_count]
       ELSE [num |-> weighted, den |-> 2000]

\* Book::isHighlyRated (HIGH_RATING_THRESHOLD is 4.0)
isHighlyRated(book) ==
    book.average_rating >= 40 /\ book.ratings_count >= MIN_RATINGS_FOR_RELIABLE

\* the operand `series_.has_value() ? series_.value() : nullptr` of
\* Book::toJson has type std::string: without a series a std::string is
\* constructed from a null pointer
Book_toJsonConstructsFromNull(book) == ~book.series.has

\* Book::toJson once the series operand has been evaluated
Book_toJsonObject(book) ==
    JObject([id |-> JString(book.id),
             title |-> JString(book.title),
             author |-> JString(book.author),
             genres |-> JArray([i \in DOMAIN book.genres |-> JString(book.genres[i])]),
             description |-> JString(book.description),
             page_count |-> JNumber(book.page_count),
             average_rating |-> JNumber(book.average_rating),
             ratings_count |-> JNumber(book.ratings_count),
             review_count |-> JNumber(book.review_count),
             series |-> JString(book.series.value),
             language |-> JString(book.language),
             publisher |-> JString(book.publisher),
             publication_date |-> JString(book.publication_date),
             isbn13 |-> JString(book.isbn13),
             is_ebook |-> JBool(book.is_ebook),
             engagement_score |-> JNumber(getEngagementScore(book)),
             popularity_score |-> JNumber(getPopularityScore(book)),
             highly_rated |-> JBool(isHighlyRated(book)),
             publication_year |-> JNumber(getPublicationYear(book))])

\* Book::toJson: the outcomes of a call.  Constructing a std::string from a
\* null pointer is undefined: the library raises std::logic_error or the
\* process dies reading the null pointer
Book_toJson(book) ==
    IF Book_toJsonConstructsFromNull(book)
    THEN {[thrown |-> "logic_error", json |-> JNull], [thrown |-> "SIGSEGV", json |-> JNull]}
    ELSE {[thrown |-> "none", json |-> Book_toJsonObject(book)]}

\* Book::fromJson on an object that has every key with the type asked for
Book_fromJson(j) ==
    Book(j.v.id.v, j.v.title.v, j.v.author.v,
         [i \in DOMAIN j.v.genres.v |-> j.v.genres.v[i].v],
         j.v.description.v, j.v.page_count.v, j.v.average_rating.v, j.v.ratings_count.v,
         j.v.review_count.v,
         IF j.v.series.t = "null" THEN nullopt ELSE Some(j.v.series.v),
         j.v.language.v, j.v.publisher.v, j.v.publication_date.v, j.v.isbn13.v,
         j.v.is_ebook.v)

\* the books that are serialized: the one of the serialization test, and
\* its variations without a series, with other genre lists, ratings, counts
\* and ebook flag
JsonBooks ==
    {Book("1", title, "Test Author", genres, "description", 200, average_rating,
          ratings_count, 500, series, "en", "Publisher",
          <<"2", "0", "2", "3", "-", "0", "1", "-", "0", "1">>, "9781234567890", is_ebook) :
        title \in {"Test Book", ""},
        genres \in {<<>>, <<"fiction">>, <<"fiction", "drama">>, <<"drama", "fiction">>},
        average_rating \in {0, 45}, ratings_count \in {0, 1000},
        series \in {nullopt, Some("Series"), Some("")}, is_ebook \in BOOLEAN}

\* Book::fromJson(book.toJson())
BookRoundTrip ==
    /\ FirstCall
    /\ \E book \in JsonBooks :
         \E r \in Book_toJson(book) :
            /\ call' = [op |-> "Book::fromJson", original |-> book,
                        deserialized |-> IF r.thrown = "none"
                                         THEN Some(Book_fromJson(r.json)) ELSE nullopt]
            /\ thrown' = r.thrown
    /\ last_op' = "Book::fromJson"
    /\ last_id' = ""
    /\ repeated' = FALSE
    /\ UNCHANGED <<now, cache_size_, search_cache_, got, put, storeVars, books_, disk,
                   last_results, last_raw, removed, saved, fresh, dimension_, recommendations,
                   load_pc>>

NextBookJson == BookRoundTrip
SpecBookJson == InitSmallest /\ [][NextBookJson]_vars

----------------------------------------------------------------------------

(* The cache key as a function of the component hashes.  std::hash<float>   *)
(* is implementation-defined: the words it returns are inputs here.         *)

\* the words std::hash<float> returns for the components of a query vector
HashWords == {0, 1, 17}

\* the query vectors, as sequences of at most MaxVectors component hashes
HashSequences == UNION {[1..n -> HashWords] : n \in 0..MaxVectors}

\* the values of top_k keys are generated for
KeyTopKs == {0, 1, 2, 18}

RECURSIVE HexFrom(_, _)
HexFrom(hashes, i) ==
    IF i > Len(hashes) THEN "" ELSE Hex(hashes[i]) \o HexFrom(hashes, i + 1)

\* generateCacheKey once std::hash<float> has been applied to the components:
\* ss << std::hex, then every hash, then top_k, nothing between them
CacheKeyOfHashes(hashes, top_k) == HexFrom(hashes, 1) \o Hex(top_k)

\* generateCacheKey is called for two queries
GenerateCacheKeys ==
    /\ FirstCall
    /\ \E a \in [hashes : HashSequences, top_k : KeyTopKs],
          b \in [hashes : HashSequences, top_k : KeyTopKs] :
         call' = [op |-> "generateCacheKey", a |-> a, b |-> b,
                  key_a |-> CacheKeyOfHashes(a.hashes, a.top_k),
                  key_b |-> CacheKeyOfHashes(b.hashes, b.top_k)]
    /\ last_op' = "generateCacheKey"
    /\ last_id' = ""
    /\ repeated' = FALSE
    /\ UNCHANGED <<now, cache_size_, search_cache_, got, put, storeVars, books_, disk, thrown,
                   last_results, last_raw, removed, saved, fresh, dimension_, recommendations,
                   load_pc>>

NextCacheKey == GenerateCacheKeys
SpecCacheKey == InitSmallest /\ [][NextCacheKey]_vars

----------------------------------------------------------------------------

(* The two offset mappings under updateDocumentMapping, called with any id  *)
(* and any offset, and under loadIndex, which calls it once per record.     *)

\* the ids updateDocumentMapping is called with
MappedIds == DocIds \cup {"c"}

\* updateDocumentMapping(doc_id, index)
UpdateDocumentMapping ==
    /\ \E doc_id \in MappedIds, index \in 0..(MaxOffsets - 1) :
         LET m == updateDocumentMapping(doc_id_to_index_, index_to_doc_id_, doc_id, index)
         IN /\ doc_id_to_index_' = m.d2i
            /\ index_to_doc_id_' = m.i2d
            /\ last_id' = doc_id
    /\ last_op' = "updateDocumentMapping"
    /\ repeated' = FALSE
    /\ fresh' = FALSE
    /\ saved' = NothingSaved
    /\ UNCHANGED <<cacheVars, flat_index_, ivf_index_, document_store_, is_trained_, books_,
                   disk, thrown, last_results, last_raw, removed, engineVars>>

NextMapping == UpdateDocumentMapping \/ AddDocuments \/ SaveIndex \/ LoadIndex
SpecMapping == InitLargest /\ [][NextMapping]_vars

----------------------------------------------------------------------------

----------------------------------------------------------------------------
(* C1: with the capacity fixed at n >= 1, after any sequence of addToCache, *)
(* getFromCache and clearCache the cache holds at most n entries.           *)
C1_CacheWithinCapacity ==
    Cardinality(DOMAIN search_cache_) <= cache_size_

\* a put of a new key into a full cache, none of whose entries had expired,
\* has just run
C1_Witness ==
    /\ last_op = "addToCache"
    /\ put.before = cache_size_
    /\ Cardinality(DOMAIN search_cache_) = cache_size_
    /\ cache_size_ > 1
    /\ \E k \in DOMAIN search_cache_ : search_cache_[k].timestamp < now

(* C2: getFromCache never returns an entry older than the 60-minute        *)
(* eviction age.                                                            *)
C2_NoExpiredEntryReturned ==
    got.hit => got.age <= EvictionAgeMinutes

(* C3: setCacheSize(n) on a cache holding more than n entries leaves at     *)
(* most n entries.                                                          *)
C3_ShrinkEvicts ==
    last_op = "setCacheSize" => Cardinality(DOMAIN search_cache_) <= cache_size_

(* C4: after a loadIndex, updateBook or removeBook that returned, the       *)
(* result cache holds no entry created before that operation.               *)
C4_WritersInvalidateCache ==
    (last_op \in {"loadIndex", "updateBook", "removeBook"} /\ thrown = "none") =>
        search_cache_ = <<>>

\* a search has returned a cached list naming a document the store no longer
\* holds
C4_StaleListReturned ==
    /\ last_op = "search"
    /\ \E i \in DOMAIN last_results : last_results[i].doc_id \notin DOMAIN document_store_

(* C5: loadIndex is all-or-nothing: a loadIndex that fails leaves the        *)
(* document store, both offset mappings, both index handles and the trained *)
(* flag as they were before the call.                                       *)
C5_LoadAllOrNothing ==
    [][(last_op' = "loadIndex" /\ thrown' # "none") => UNCHANGED storeVars]_vars

\* the snapshot on disk declares more records than its mapping artifact holds
DeclaresMoreThanPresent ==
    /\ disk.flat.exists
    /\ disk.ivf.exists
    /\ disk.mapping.exists
    /\ Len(disk.mapping.records) < disk.mapping.count

(* C6: loadIndex of a mapping artifact that declares c records and holds     *)
(* r < c ends in an IndexError, and never returns normally.                  *)
C6_CountMismatchIsIndexError ==
    (last_op = "loadIndex" /\ DeclaresMoreThanPresent) => thrown = "IndexError"

\* offset o (1-based position) of the store is held by a stored document
\* that has an embedding
LiveOffsets ==
    {o \in DOMAIN index_to_doc_id_ :
        /\ index_to_doc_id_[o] \in DOMAIN document_store_
        /\ document_store_[index_to_doc_id_[o]].embedding.has}

(* C7: after saveIndex and a successful loadIndex of that snapshot, the      *)
(* offset that index_to_doc_id_ maps to a document's id is the offset at     *)
(* which that document's embedding sits in the loaded index.                 *)
C7_LoadedOffsetsAgreeWithIndex ==
    (last_op = "loadIndex" /\ thrown = "none" /\ saved.intact) =>
        \A o \in LiveOffsets :
            /\ o <= Len(flat_index_)
            /\ flat_index_[o] = document_store_[index_to_doc_id_[o]].embedding.value

(* C8: saveIndex followed by a successful loadIndex of that snapshot yields  *)
(* a document store with the same ids and, for each id, the same text, the   *)
(* same metadata and the same embedding, present exactly when it was.        *)
C8_RoundTripDocuments ==
    (last_op = "loadIndex" /\ thrown = "none" /\ saved.intact) =>
        /\ DOMAIN document_store_ = DOMAIN saved.st.document_store_
        /\ \A id \in DOMAIN document_store_ :
              /\ document_store_[id].id = id
              /\ document_store_[id].text = saved.st.document_store_[id].text
              /\ document_store_[id].metadata = saved.st.document_store_[id].metadata
              /\ document_store_[id].embedding = saved.st.document_store_[id].embedding

\* a new store has loaded a snapshot of two documents, one of them without
\* an embedding
C8_Witness ==
    /\ last_op = "loadIndex"
    /\ thrown = "none"
    /\ saved.intact
    /\ fresh
    /\ DOMAIN document_store_ = {"a", "b"}
    /\ \E id \in DOMAIN document_store_ : ~document_store_[id].embedding.has
    /\ \E id \in DOMAIN document_store_ : document_store_[id].embedding.has

\* raw hit i of the last processing run survives: its offset is inside the
\* mapping and maps to an id of the document store
Kept(i) ==
    /\ last_raw.indices[i] >= 0
    /\ last_raw.indices[i] < Len(index_to_doc_id_)
    /\ index_to_doc_id_[last_raw.indices[i] + 1] \in DOMAIN document_store_

KeptPositions == {i \in DOMAIN last_raw.indices : Kept(i)}

\* the j-th surviving raw hit
NthKept(j) ==
    CHOOSE i \in KeptPositions : Cardinality({p \in KeptPositions : p < i}) = j - 1

(* C9: every result of processSearchResults names an id of the document     *)
(* store and carries that store's document; hits with a negative offset, an  *)
(* offset out of range or an id that is not in the store are skipped; the    *)
(* survivors keep the order of the raw hits.                                 *)
C9_NoDanglingResults ==
    last_op = "processSearchResults" =>
        /\ Len(last_results) = Cardinality(KeptPositions)
        /\ \A j \in DOMAIN last_results :
              /\ last_results[j].doc_id \in DOMAIN document_store_
              /\ last_results[j].document = document_store_[last_results[j].doc_id]
              /\ last_results[j].doc_id = index_to_doc_id_[last_raw.indices[NthKept(j)] + 1]
              /\ last_results[j].similarity = last_raw.distances[NthKept(j)]

\* three raw hits: a survivor, then a tombstoned or out-of-range or negative
\* one, then another survivor
C9_Witness ==
    /\ last_op = "processSearchResults"
    /\ Len(last_raw.indices) = 3
    /\ Len(last_results) = 2
    /\ ~Kept(2)
    /\ last_raw.indices[2] >= 0
    /\ last_results[1].doc_id # last_results[2].doc_id

(* C10: removeBook(id) right after removeBook(id) does not raise and leaves  *)
(* books_, the vector store and the cache as the first call left them, and   *)
(* no search returns an id that was removed and not added again.            *)
C10_RemoveIdempotent ==
    [][/\ (last_op = "removeBook" /\ last_op' = "removeBook" /\ last_id' = last_id) =>
            (thrown' = "none" /\ UNCHANGED <<books_, storeVars, search_cache_>>)
       /\ last_op' = "search" =>
            \A i \in DOMAIN last_results' : last_results'[i].doc_id \notin removed']_vars

\* a book that was in the catalog and the store has been removed twice in a
\* row, another one is still there
C10_Witness ==
    /\ last_op = "removeBook"
    /\ repeated
    /\ last_id \in removed
    /\ last_id \notin DOMAIN document_store_
    /\ \E o \in DOMAIN index_to_doc_id_ : index_to_doc_id_[o] = ""
    /\ Len(books_) = 1
    /\ DOMAIN document_store_ # {}

(* C11: no search runs while a loadIndex on another thread is between its    *)
(* first and its last statement.                                            *)
C11_SearchExcludesLoad ==
    last_op = "search" => load_pc.step = "idle"

\* a search that ran inside a loadIndex found the new index handle with the
\* document store already cleared and returned nothing from a snapshot that
\* has documents
C11_SearchSawClearedStore ==
    /\ last_op = "search"
    /\ load_pc.step = "reading"
    /\ load_pc.i = 0
    /\ saved.intact
    /\ DOMAIN saved.st.document_store_ # {}
    /\ flat_index_ # <<>>
    /\ last_results = <<>>

\* the last operation was a call of one of the engine's entry points
EngineCall ==
    call.op \in {"getRecommendations", "getSimilarBooks", "getAuthorRecommendations",
                 "getSeriesRecommendations"}

(* C12: when candidate retrieval, reconstruction, filtering or ranking      *)
(* raised inside a call of an entry point, the call ends in a QueryError.   *)
C12_StageErrorsReachCaller ==
    (EngineCall /\ call.caught \in {"IndexError", "runtime_error", "out_of_range", "type_error"})
        => thrown = "QueryError"

\* getSimilarBooks with an id the store does not know, on a store that holds
\* documents, has returned an empty list as if nothing had matched
C12_UnknownIdLooksLikeNoMatch ==
    /\ call.op = "getSimilarBooks"
    /\ call.arg \notin DOMAIN document_store_
    /\ DOMAIN document_store_ # {}
    /\ call.caught = "IndexError"
    /\ thrown = "none"
    /\ recommendations = <<>>


\* a candidate whose stored metadata the engine can rebuild a Book from
Rebuilds(hit) ==
    MissingKeys(hit.document) = {} /\ ~ReconstructThrows(hit.document)

\* the candidates that are left when the ones that cannot be rebuilt are
\* skipped one by one and the others are filtered
KeptSkippingBad(candidates, filter) ==
    SelectSeq(candidates,
              LAMBDA hit : Rebuilds(hit) /\ passesFilter(ReconstructBook(hit.document), filter))

\* the smaller of two numbers
Min(a, b) == IF a <= b THEN a ELSE b

\* C13: a candidate with a missing or mistyped metadata key is skipped on its
\* own: getRecommendations still returns min(top_k, n) of the n other
\* candidates that pass the filter, and nothing else.
C13_BadCandidateSkippedAlone ==
    (call.op \in {"getRecommendations", "getSeriesRecommendations"}
     /\ \E i \in DOMAIN call.candidates : ~Rebuilds(call.candidates[i]))
    => /\ thrown = "none"
       /\ Len(recommendations)
            = Min(call.top_k, Len(KeptSkippingBad(call.candidates, call.filter)))
       /\ \A i \in DOMAIN recommendations :
            \E j \in DOMAIN call.candidates :
                /\ Rebuilds(call.candidates[j])
                /\ call.candidates[j].document.id = recommendations[i].book.id

\* C13: a query whose candidates are one complete document that passes the
\* filter and one document without page_count came back empty, the
\* std::out_of_range of the second having ended the whole query.
C13_WholeQueryLost ==
    /\ call.op = "getRecommendations"
    /\ call.top_k >= 1
    /\ call.caught = "out_of_range"
    /\ \E i \in DOMAIN call.candidates : "page_count" \in MissingKeys(call.candidates[i].document)
    /\ KeptSkippingBad(call.candidates, call.filter) # <<>>
    /\ recommendations = <<>>


\* the store holds the one document of the integration test, and
\* getRecommendations was called on it with the empty filter, a positive
\* top_k and a query the collaborator embedded along the document's embedding
EndToEndScenario ==
    /\ call.op = "getRecommendations"
    /\ DOMAIN document_store_ = {"d"}
    /\ document_store_["d"].metadata = FiveKeyMetadata
    /\ call.arg \in SampleQueries
    /\ call.filter = NoFilter
    /\ call.top_k >= 1
    /\ call.embed.ok
    /\ call.embed.vector = <<2, 0>>

\* C14: end to end, with one stored document whose metadata has only title,
\* author, genres, average_rating and ratings_count, getRecommendations
\* returns exactly one result, with a non-empty explanation and a positive
\* similarity score.
C14_EndToEndOneResult ==
    EndToEndScenario
    => /\ Len(recommendations) = 1
       /\ recommendations[1].explanation # ""
       /\ recommendations[1].similarity_score > 0

\* C14: the end-to-end call returned nothing: the store had handed the
\* document back as a candidate, and rebuilding the Book raised
\* std::out_of_range on the keys the document does not have.
C14_EndToEndEmpty ==
    /\ EndToEndScenario
    /\ Len(call.candidates) = 1
    /\ call.candidates[1].similarity > 0
    /\ call.caught = "out_of_range"
    /\ recommendations = <<>>


\* the clauses of a filter that are present hold of a book
PresentClausesHold(book, filter) ==
    /\ filter.genres.has => Range(book.genres) \cap Range(filter.genres.value) # {}
    /\ filter.min_rating.has => filter.min_rating.value <= book.average_rating
    /\ filter.max_rating.has => book.average_rating <= filter.max_rating.value
    /\ filter.min_ratings_count.has => book.ratings_count >= filter.min_ratings_count.value
    /\ filter.publication_year_start.has =>
            filter.publication_year_start.value <= getPublicationYear(book)
    /\ filter.publication_year_end.has =>
            getPublicationYear(book) <= filter.publication_year_end.value
    /\ filter.language.has => book.language = filter.language.value
    /\ (filter.ebook_only.has /\ filter.ebook_only.value) => book.is_ebook
    /\ filter.authors.has => book.author \in Range(filter.authors.value)

\* C15: passesFilter is the conjunction of the present clauses: it returns
\* true exactly when every clause of the filter that is present holds of the
\* book (so a filter without clauses accepts every book).
C15_FilterIsConjunction ==
    call.op = "passesFilter" => (call.result <=> PresentClausesHold(call.book, call.filter))

\* C15: passesFilter rejected a book of which every present clause holds
\* (rating, count, year, language, genre and author all as the filter asks):
\* the filter carries ebook_only = false and the book is not an ebook.
C15_RejectedThoughClausesHold ==
    /\ call.op = "passesFilter"
    /\ PresentClausesHold(call.book, call.filter)
    /\ call.filter.ebook_only = Some(FALSE)
    /\ ~call.book.is_ebook
    /\ ~call.result


\* the composite score of a result among the filtered candidates of the call
ScoreInCall(rec) == CompositeScore(rec, calculateDiversityScore(call.filtered))

\* the call went through retrieval, reconstruction and filtering
ReachedRanking ==
    /\ call.op \in {"getRecommendations", "getSimilarBooks"}
    /\ call.caught = "none"
    /\ thrown = "none"

\* C16: getRecommendations and getSimilarBooks return min(top_k, n) of the n
\* filtered candidates, in non-increasing order of the composite score
\* 0.5*similarity + 0.3*popularity + 0.2*diversity (the diversity being that
\* of the whole filtered set), and no candidate left out scores higher than
\* one that is returned.
C16_RankedThenTruncated ==
    ReachedRanking
    => /\ Len(recommendations) = Min(call.top_k, Len(call.filtered))
       /\ \A i \in 1..(Len(recommendations) - 1) :
            ScoreInCall(recommendations[i]) >= ScoreInCall(recommendations[i + 1])
       /\ \A i \in DOMAIN recommendations :
            \E j \in DOMAIN call.filtered : call.filtered[j] = recommendations[i]
       /\ \A i, j \in DOMAIN recommendations :
            i # j => recommendations[i].book.id # recommendations[j].book.id
       /\ \A j \in DOMAIN call.filtered :
            (\A i \in DOMAIN recommendations : recommendations[i] # call.filtered[j])
            => \A i \in DOMAIN recommendations :
                 ScoreInCall(recommendations[i]) >= ScoreInCall(call.filtered[j])

\* C16: a call with top_k = 1 had two filtered candidates and returned the one
\* retrieved second, whose composite score is the higher.
C16_Witness ==
    /\ ReachedRanking
    /\ call.top_k = 1
    /\ Len(call.filtered) >= 2
    /\ Len(recommendations) = 1
    /\ recommendations[1] = call.filtered[2]
    /\ ScoreInCall(call.filtered[2]) > ScoreInCall(call.filtered[1])


\* the place of a book in a list of results
PlaceIn(recs, id) == CHOOSE i \in DOMAIN recs : recs[i].book.id = id

\* C17: ranking is stable: two results of equal composite score are returned
\* in the order in which the store retrieved them.
C17_TiesKeepRetrievalOrder ==
    ReachedRanking
    => \A i, j \in DOMAIN recommendations :
         (i < j /\ ScoreInCall(recommendations[i]) = ScoreInCall(recommendations[j]))
         => PlaceIn(call.filtered, recommendations[i].book.id)
              < PlaceIn(call.filtered, recommendations[j].book.id)

\* C17: two candidates of equal composite score were both returned, the one
\* retrieved second ahead of the one retrieved first.
C17_TieReordered ==
    /\ ReachedRanking
    /\ Len(call.filtered) = 2
    /\ ScoreInCall(call.filtered[1]) = ScoreInCall(call.filtered[2])
    /\ recommendations = <<call.filtered[2], call.filtered[1]>>


\* C18: getAuthorRecommendations(author, filter, top_k) returns only books
\* written by that author, whatever author list the caller's filter carries.
C18_OnlyTheRequestedAuthor ==
    call.op = "getAuthorRecommendations"
    => \A i \in DOMAIN recommendations : recommendations[i].book.author = call.arg

\* C18: getAuthorRecommendations for one author, called with a filter whose
\* author list names another, returned a book by the other author.
C18_OtherAuthorReturned ==
    /\ call.op = "getAuthorRecommendations"
    /\ call.filter.authors.has
    /\ call.arg \notin Range(call.filter.authors.value)
    /\ \E i \in DOMAIN recommendations :
         /\ recommendations[i].book.author # call.arg
         /\ recommendations[i].book.author \in Range(call.filter.authors.value)


\* the candidates of the call other than the query book that rebuild and
\* pass the filter
OthersKept ==
    SelectSeq(KeptSkippingBad(call.candidates, call.filter),
              LAMBDA hit : hit.document.id # call.arg)

\* C19: getSimilarBooks(book_id, filter, top_k) never returns the query book,
\* and the query book takes none of the top_k places: the call returns
\* min(top_k, n) results, n being the number of other candidates that pass
\* the filter.
C19_QueryBookExcluded ==
    call.op = "getSimilarBooks"
    => /\ \A i \in DOMAIN recommendations : recommendations[i].book.id # call.arg
       /\ (call.caught = "none" /\ thrown = "none")
            => Len(recommendations) = Min(call.top_k, Len(OthersKept))

\* C19: the store handed the query book back among the candidates, it passes
\* the filter and scores at least as high as every result returned, and the
\* call still returned top_k >= 1 other books.
C19_Witness ==
    /\ call.op = "getSimilarBooks"
    /\ call.caught = "none"
    /\ call.top_k >= 1
    /\ Len(recommendations) = call.top_k
    /\ \E j \in DOMAIN call.candidates :
         LET hit == call.candidates[j]
             self == [book |-> ReconstructBook(hit.document),
                      similarity_score |-> hit.similarity]
         IN /\ hit.document.id = call.arg
            /\ passesFilter(self.book, call.filter)
            /\ \A i \in DOMAIN recommendations :
                 ScoreInCall(self) >= ScoreInCall(recommendations[i])


\* C20: when the embedding collaborator fails, vectorizeQuery returns an
\* all-zero vector as long as the dimension the store was configured with,
\* so the search that follows raises no dimension mismatch.
C20_FallbackHasStoreDimension ==
    (call.op \in {"getRecommendations", "getAuthorRecommendations", "getSeriesRecommendations"}
     /\ ~call.embed.ok)
    => /\ Len(vectorizeQuery(call.embed)) = dimension_
       /\ \A i \in DOMAIN vectorizeQuery(call.embed) : vectorizeQuery(call.embed)[i] = 0
       /\ call.caught # "IndexError"

\* C20: the collaborator failed on a store configured with a dimension other
\* than 384: the fallback vector has 384 zeros, the search rejected it, and
\* the call returned nothing although the store holds documents.
C20_FallbackRejectedByStore ==
    /\ call.op = "getRecommendations"
    /\ ~call.embed.ok
    /\ dimension_ # FallbackDimension
    /\ Len(vectorizeQuery(call.embed)) = FallbackDimension
    /\ DOMAIN document_store_ # {}
    /\ call.top_k >= 1
    /\ call.caught = "IndexError"
    /\ recommendations = <<>>


\* the candidates of the call ahead of which none failed to rebuild, and
\* that pass the filter: the ones an explanation is written for
Explained ==
    {i \in DOMAIN call.candidates :
        /\ \A j \in 1..i : Rebuilds(call.candidates[j])
        /\ passesFilter(ReconstructBook(call.candidates[i].document), call.filter)}

\* C21: explanation generation never fails the request: for every surviving
\* candidate and every query, an empty genre list with a non-empty query
\* included, generateExplanation reads nothing outside the genre list and
\* the call neither dies nor raises.
C21_ExplanationNeverFails ==
    call.op = "getRecommendations"
    => /\ \A i \in Explained :
            ~generateExplanationReadsOutside(
                ReconstructBook(call.candidates[i].document), call.arg)
       /\ thrown = "none"
       /\ call.caught # "length_error"

\* C21: a candidate without genres survived the filter of a call with a
\* non-empty query; generateExplanation read genres[0] of the empty list and
\* the process died of it.
C21_ReadOutsideGenreList ==
    /\ call.op = "getRecommendations"
    /\ call.arg # <<>>
    /\ \E i \in Explained :
         ReconstructBook(call.candidates[i].document).genres = <<>>
    /\ thrown = "SIGSEGV"
    /\ recommendations = <<>>


\* C22: calculateDiversityScore is 0 for an empty result set, positive for
\* every non-empty one, divides by nothing that is zero, and never exceeds
\* 1, whatever the number of genres the books carry.
C22_DiversityWithinUnitInterval ==
    call.op = "calculateDiversityScore"
    => /\ call.score.den > 0
       /\ (call.results = <<>>) => call.score.num = 0
       /\ (call.results # <<>>) => call.score.num > 0
       /\ call.score.num <= call.score.den

\* C22: the diversity of a single result whose book carries four genres is
\* (4/3 + 1)/2 = 7/6, above 1.
C22_DiversityAboveOne ==
    /\ call.op = "calculateDiversityScore"
    /\ Len(call.results) = 1
    /\ Len(call.results[1].book.genres) = 4
    /\ call.score = [num |-> 7, den |-> 6]


\* C23: for every Book, with or without a series, Book::fromJson(toJson())
\* returns a Book with the fields of the original.
C23_BookRoundTrip ==
    call.op = "Book::fromJson"
    => /\ thrown = "none"
       /\ call.deserialized = Some(call.original)

\* C23: toJson of a Book without a series raised std::logic_error: nothing
\* was serialized and there is nothing to read back.
C23_NoSeriesNotSerialized ==
    /\ call.op = "Book::fromJson"
    /\ call.original.series = nullopt
    /\ thrown = "logic_error"
    /\ call.deserialized = nullopt


\* the keys whose entries are not older than the eviction age
LiveKeys == {k \in DOMAIN search_cache_ : now - search_cache_[k].timestamp <= EvictionAgeMinutes}

OtherClausesPass(book, filter) ==
    passesFilter(book, [filter EXCEPT !.ebook_only = nullopt])

\* C25: the ebook-only clause excludes a book that is not an ebook only when
\* ebook_only is true: with ebook_only present and false, passesFilter
\* accepts a book that is not an ebook and satisfies the other clauses.
C25_EbookOnlyFalseIsNoConstraint ==
    (call.op = "passesFilter"
     /\ call.filter.ebook_only = Some(FALSE)
     /\ ~call.book.is_ebook
     /\ OtherClausesPass(call.book, call.filter))
    => call.result

\* C25: the same book and the same filter without the ebook_only clause are
\* accepted; with ebook_only = false the book, not being an ebook, was
\* rejected.
C25_PrintedBookRejected ==
    /\ call.op = "passesFilter"
    /\ call.filter.ebook_only.has
    /\ ~call.filter.ebook_only.value
    /\ ~call.book.is_ebook
    /\ OtherClausesPass(call.book, call.filter)
    /\ call.filter.genres = nullopt
    /\ call.filter.authors = nullopt
    /\ ~call.result


\* C26: a put for a key that is present (and not expired) only replaces that
\* key's entry: no other live entry is removed, also when the cache is
\* exactly at capacity, and the number of live entries is unchanged.
C26_PutOfPresentKeyKeepsOthers ==
    [][(last_op' = "addToCache" /\ put'.key \in LiveKeys)
        => /\ DOMAIN search_cache_' = LiveKeys
           /\ \A k \in LiveKeys \ {put'.key} : search_cache_'[k] = search_cache_[k]]_vars

\* C26: nothing can have expired yet; a put into the full cache has left it
\* with one entry fewer: the key was present, and the capacity step erased
\* another, older entry.
C26_PutShrankTheCache ==
    /\ last_op = "addToCache"
    /\ now <= EvictionAgeMinutes
    /\ cache_size_ > 1
    /\ put.before = cache_size_
    /\ Cardinality(DOMAIN search_cache_) = put.before - 1


\* C27: the cache key is a deterministic and injective function of the
\* component hashes and top_k: two queries get the same key exactly when
\* they have the same sequence of component hashes and the same top_k.
C27_CacheKeyInjective ==
    call.op = "generateCacheKey"
    => ((call.key_a = call.key_b) <=> (call.a = call.b))

\* C27: two queries with vectors of the same length, different component
\* hashes and different top_k were given the same key.
C27_TwoQueriesOneKey ==
    /\ call.op = "generateCacheKey"
    /\ Len(call.a.hashes) = Len(call.b.hashes)
    /\ call.a.hashes # call.b.hashes
    /\ call.a.top_k # call.b.top_k
    /\ call.a.top_k > 0
    /\ call.b.top_k > 0
    /\ call.key_a = call.key_b


\* C28: the two offset mappings are mutually inverse: every offset of
\* index_to_doc_id_ holds an id that doc_id_to_index_ maps back to that
\* offset, and no id stands at two offsets.
C28_MappingsInverse ==
    /\ \A i \in DOMAIN index_to_doc_id_ :
         /\ index_to_doc_id_[i] \in DOMAIN doc_id_to_index_
         /\ doc_id_to_index_[index_to_doc_id_[i]] = i - 1
    /\ \A i, j \in DOMAIN index_to_doc_id_ :
         index_to_doc_id_[i] = index_to_doc_id_[j] => i = j

\* C28: updateDocumentMapping has given an id that had an offset a second
\* one: the id stands at both offsets of index_to_doc_id_, and
\* doc_id_to_index_ knows only the later one.
C28_IdAtTwoOffsets ==
    /\ last_op = "updateDocumentMapping"
    /\ \E i, j \in DOMAIN index_to_doc_id_ :
         /\ i # j
         /\ index_to_doc_id_[i] = last_id
         /\ index_to_doc_id_[j] = last_id
         /\ doc_id_to_index_[last_id] = j - 1


\* 0.5 * similarity + 0.3 * popularity, times 10000: the composite score
\* without its diversity term
BaseScore(rec) == 5000 * rec.similarity_score + 3 * getPopularityScore(rec.book)

\* C29: the ranked order does not depend on the diversity value: rankResults
\* returns the results of the batch in an order a ranking by
\* 0.5*similarity + 0.3*popularity alone would give, a before b whenever the
\* base score of a is the higher.
C29_OrderIgnoresDiversity ==
    call.op = "rankResults"
    => /\ Len(recommendations) = Len(call.results)
       /\ \E p \in Orderings(Len(call.results)) :
            recommendations = [i \in DOMAIN call.results |-> call.results[p[i]]]
       /\ \A i, j \in DOMAIN recommendations :
            BaseScore(recommendations[i]) > BaseScore(recommendations[j]) => i < j

\* C29: a batch of two results, the second with the higher base score and
\* the first with the more genres, came back with the second in front.
C29_Witness ==
    /\ call.op = "rankResults"
    /\ Len(call.results) = 2
    /\ calculateDiversityScore(call.results).num > 0
    /\ Len(call.results[1].book.genres) > Len(call.results[2].book.genres)
    /\ BaseScore(call.results[2]) > BaseScore(call.results[1])
    /\ recommendations = <<call.results[2], call.results[1]>>


\* C30: the popularity score lies in [0, 100] for ratings in [0, 5] and
\* ratings counts >= 0, and at equal rating it does not fall when the
\* ratings count grows and rises as long as the smaller count is below
\* 10000; and in a ranked batch whose similarities lie in [-1, 1], a result
\* whose popularity score exceeds another's by more than 10/3 stands before
\* it, whatever the two similarities are.  (Scores are held times 1000.)
C30_PopularityDominatesSimilarity ==
    /\ call.op = "getPopularityScore"
       => /\ call.score_a >= 0
          /\ call.score_a <= 100000
          /\ (call.a.average_rating = call.b.average_rating
              /\ call.a.ratings_count <= call.b.ratings_count)
                => call.score_a <= call.score_b
          /\ (call.a.average_rating = call.b.average_rating
              /\ call.a.ratings_count < call.b.ratings_count
              /\ call.a.ratings_count < 10000)
                => call.score_a < call.score_b
    /\ call.op = "rankResults"
       => \A i, j \in DOMAIN recommendations :
            3 * (getPopularityScore(recommendations[i].book)
                    - getPopularityScore(recommendations[j].book)) > 10000
            => i < j

\* C30: of two results the first had similarity 1 and the second
\* similarity -1 and a popularity score more than 10/3 higher; the second
\* was ranked first.
C30_Witness ==
    /\ call.op = "rankResults"
    /\ Len(call.results) = 2
    /\ call.results[1].similarity_score = 1
    /\ call.results[2].similarity_score = -1
    /\ 3 * (getPopularityScore(call.results[2].book)
                - getPopularityScore(call.results[1].book)) > 10000
    /\ recommendations[1] = call.results[2]
    /\ recommendations[2] = call.results[1]

====
